---- MODULE Spec2Model ----
(***************************************************************************)
(* A model of the dense sketching operators of RandBLAS:                   *)
(*   - the counter-based fill of a (sub)matrix, fill_rsubmat_omp, with its *)
(*     OpenMP workers (specification SpecFill);                            *)
(*   - the life cycle of a DenseSkOp and the apply routines lskge3 and     *)
(*     rskge3 (specification Spec; SpecPair for calls made one after the   *)
(*     other on the same operator).                                        *)
(* Source: src/RandBLAS/dense.hh.                                          *)
(***************************************************************************)
EXTENDS Integers, Sequences, FiniteSets, TLC

VARIABLES
    fp,      \* fill_rsubmat_omp: the arguments of the call in progress
    wk,      \* fill_rsubmat_omp: per worker, its private cc and prev and its last row
    rowsDone,\* fill_rsubmat_omp: the rows whose loop iteration has run
    smat,    \* fill_rsubmat_omp: the destination buffer
    wrote,   \* fill_rsubmat_omp: per index of smat, how many writes it received
    glog,    \* fill_rsubmat_omp: per row, the counters passed to OP::generate, the first increment, the number of writes
    fret,    \* fill_rsubmat_omp: the returned RNGState, or NoState
    fpc,     \* fill_rsubmat_omp: "run" inside the parallel region, "done" after the return
    life,    \* DenseSkOp: "new" before the constructor, "alive", "failed" (constructor threw), "destroyed"
    S,       \* DenseSkOp: the caller's operator (its fields), or NoOp
    heap,    \* the buffers: the user's, the one realize_full attached to S, the last temporary
    call,    \* the outcome of the last call of lskge3 / rskge3 / realize_full the caller still looks at
    splife,  \* SparseSkOp: "new" before the constructor, "alive", "failed" (constructor threw), "destroyed"
    sp,      \* SparseSkOp: the caller's operator (its fields), or NoOp
    sheap,   \* the arrays rows, cols and vals the sparse operator allocated
    fy,      \* fill_sparse / repeated_fisher_yates: the position and the locals of the call in progress
    St,      \* the value transpose(sp) returned to the caller, or NoView
    Stt,     \* the value transpose(St) returned to the caller, or NoView
    cv       \* coo_view_of_skop(sp): the last view returned, and how often fill_sparse ran on the arrays

fillVars == <<fp, wk, rowsDone, smat, wrote, glog, fret, fpc>>

opVars == <<life, S, heap, call>>

spVars == <<splife, sp, sheap, fy, St, Stt, cv>>

denseVars == <<fp, wk, rowsDone, smat, wrote, glog, fret, fpc, life, S, heap, call>>

vars == <<fp, wk, rowsDone, smat, wrote, glog, fret, fpc, life, S, heap, call,
          splife, sp, sheap, fy, St, Stt, cv>>

----------------------------------------------------------------------------
(* Bounds of the model *)

MaxCols == 7        \* parent row length n_cols of a fill
MaxRows == 3        \* rows n_srows of a filled tile
MaxPtr == 3         \* start offset ptr of a tile in the parent stream
MaxWorkers == 2     \* OpenMP threads of the parallel region
MaxDim == 3         \* n_rows, n_cols of a DenseDist
MaxSub == 2         \* the sizes d, n, m of an apply call
MaxOff == 1         \* the offsets i_os, j_os of an apply call
MaxLd == 2          \* the leading dimensions lda, ldb of an apply call

----------------------------------------------------------------------------
(* The counter-based generator *)

\* RNG::ctr_type::static_size of the default generator r123::Philox4x32
W == 4

Null == "null"
NoState == "nostate"
Unset == "unset"

\* The seeds a fill is started from: RNGState(key) has counter 0; a chained
\* state has an advanced counter.
Seeds == { [counter |-> 0, key |-> 0], [counter |-> 0, key |-> 1],
           [counter |-> 3, key |-> 1] }

\* The transforms OP of the raw words: r123ext::boxmul, r123ext::uneg11
Ops == {"boxmul", "uneg11"}

\* OP::generate(rng, cc, k): a block of W values, a function of the counter,
\* the key and the transform alone.  Distinct (op, counter, key, i) give
\* distinct values, so that any mix-up of stream positions is visible.
Generate(op, cc, k) ==
    [i \in 0..(W - 1) |-> 1 + (IF op = "boxmul" THEN 0 ELSE 1) + 2 * k + 4 * (cc * W + i)]

\* ctr.incr(n)
Incr(cc, n) == cc + n

----------------------------------------------------------------------------
(* fill_rsubmat_omp: one iteration of the row loop *)

\* rv[lo], ..., rv[hi] as the sequence of values copied to smat
BlockBelow(rv, lo, hi) == [j \in 1..(hi - lo) |-> rv[lo + j - 1]]
Block(rv, lo, hi) == [j \in 1..(hi - lo + 1) |-> rv[lo + j - 1]]

\* i0 = ptr + row * n_cols
RowStartSub(p, row) == p.ptr + row * p.n_scols
RowStart(p, row) == p.ptr + row * p.n_cols

\* the argument of the first cc.incr of a row: r0 - prev
FirstIncrAbs(r0, prev) == r0
FirstIncr(r0, prev) == r0 - prev

RECURSIVE MiddleLoopToEnd(_, _, _, _, _)
MiddleLoopToEnd(op, k, tmp, r1, cc) ==
    IF tmp < r1
    THEN LET c1   == Incr(cc, 1)
             rv   == Generate(op, c1, k)
             rest == MiddleLoopToEnd(op, k, tmp + 1, r1, c1)
         IN  [cc |-> rest.cc,
              vals |-> Block(rv, 0, W - 1) \o rest.vals,
              ctrs |-> <<c1>> \o rest.ctrs]
    ELSE [cc |-> cc, vals |-> <<>>, ctrs |-> <<>>]

\* the "middle" while loop: blocks r0+1 .. r1-1 in full
RECURSIVE MiddleLoop(_, _, _, _, _)
MiddleLoop(op, k, tmp, r1, cc) ==
    IF tmp < r1 - 1
    THEN LET c1   == Incr(cc, 1)
             rv   == Generate(op, c1, k)
             rest == MiddleLoop(op, k, tmp + 1, r1, c1)
         IN  [cc |-> rest.cc,
              vals |-> Block(rv, 0, W - 1) \o rest.vals,
              ctrs |-> <<c1>> \o rest.ctrs]
    ELSE [cc |-> cc, vals |-> <<>>, ctrs |-> <<>>]

\* The body of the row loop run by a worker whose private state is (cc, prev):
\* the new (cc, prev), the values written to smat[row*n_scols + 0, 1, ...] in
\* order, the counters passed to OP::generate and the first increment.
RowStep(p, cc, prev, row) ==
    LET i0    == RowStart(p, row)
        i1    == RowStart(p, row) + p.n_scols - 1
        r0    == i0 \div W
        r1    == i1 \div W
        s0    == i0 % W
        e1    == i1 % W
        inc0  == FirstIncr(r0, prev)
        cc0   == Incr(cc, inc0)
        rv0   == Generate(p.op, cc0, p.seed.key)
        range == IF r1 > r0 THEN W - 1 ELSE e1
        first == Block(rv0, s0, range)
        mid   == MiddleLoop(p.op, p.seed.key, r0, r1, cc0)
        prevM == r0 + Len(mid.ctrs)
        ccE   == IF r1 > r0 THEN Incr(mid.cc, 1) ELSE mid.cc
        prevE == IF r1 > r0 THEN prevM + 1 ELSE prevM
        last  == IF r1 > r0 THEN Block(Generate(p.op, ccE, p.seed.key), 0, e1) ELSE <<>>
        lastC == IF r1 > r0 THEN <<ccE>> ELSE <<>>
    IN  [cc |-> ccE, prev |-> prevE,
         vals |-> first \o mid.vals \o last,
         ctrs |-> <<cc0>> \o mid.ctrs \o lastC,
         inc0 |-> inc0, r0 |-> r0, r1 |-> r1]

\* smat after the writes smat[ind + row*n_scols] = vals[ind+1], ind = 0, 1, ...
WriteRow(buf, p, row, vals) ==
    [x \in DOMAIN buf |->
        IF x >= row * p.n_scols /\ x < row * p.n_scols + Len(vals)
        THEN vals[x - row * p.n_scols + 1] ELSE buf[x]]

\* The whole call run by one thread: rows 0, 1, ..., n_srows-1 in order
RECURSIVE SeqRows(_, _, _, _, _, _)
RECURSIVE SeqRowsAfter(_, _, _, _, _)
SeqRows(p, row, cc, prev, buf, ctrs) ==
    IF row < p.n_srows
    THEN SeqRowsAfter(p, row, buf, ctrs, RowStep(p, cc, prev, row))
    ELSE [smat |-> buf, ctrs |-> ctrs]

\* The rest of the loop once iteration row has run with outcome s
SeqRowsAfter(p, row, buf, ctrs, s) ==
    SeqRows(p, row + 1, s.cc, s.prev, WriteRow(buf, p, row, s.vals), ctrs \o s.ctrs)

\* fill_rsubmat_omp(n_cols, smat, n_srows, n_scols, ptr, seed): the buffer it
\* leaves, the counters it consumed, and the state it returns: {c, k}, where
\* c is the function's own copy of seed.counter (the workers advance their
\* firstprivate copies cc only).
FillRsubmatOmp(p) ==
    SeqRows(p, 0, p.seed.counter, 0,
            [x \in 0..(p.n_srows * p.n_scols - 1) |-> Unset], <<>>)
    @@ [ret |-> [counter |-> p.seed.counter, key |-> p.seed.key]]

FillParams(nc, nsr, nsc, ptr, seed, op) ==
    [n_cols |-> nc, n_srows |-> nsr, n_scols |-> nsc, ptr |-> ptr, seed |-> seed, op |-> op]

\* No call of fill_rsubmat_omp in progress
NoFill == "nofill"

----------------------------------------------------------------------------
(* fill_rmat, fill_buff *)

\* fill_rmat(n_rows, n_cols, mat, seed, ma)
RECURSIVE fill_rmat(_, _, _, _, _)
fill_rmat(n_rows, n_cols, seed, ma, op) ==
    IF (ma = "Long" /\ n_cols < n_rows) \/ (ma = "Short" /\ n_rows < n_cols)
    THEN fill_rmat(n_cols, n_rows, seed, ma, op)
    ELSE FillRsubmatOmp(FillParams(n_cols, n_rows, n_cols, 0, seed, op))

\* fill_buff(buff, D, state) for the Gaussian and Uniform families (BlackBox throws)
fill_buff(D, state) ==
    fill_rmat(D.n_rows, D.n_cols, state, D.major_axis,
              IF D.family = "Gaussian" THEN "boxmul" ELSE "uneg11")

----------------------------------------------------------------------------
(* DenseDist, DenseSkOp *)

Families == {"Gaussian", "Uniform", "BlackBox"}
MajorAxes == {"Short", "Long"}
Layouts == {"RowMajor", "ColMajor"}
TransOps == {"NoTrans", "Trans"}

NoOp == "noop"

\* dist_to_layout(D)
dist_to_layout_swapped(D) ==
    LET is_wide == D.n_rows < D.n_cols
        fa_long == D.major_axis = "Long"
    IN  IF is_wide /\ fa_long THEN "ColMajor"
        ELSE IF is_wide THEN "RowMajor"
        ELSE IF fa_long THEN "RowMajor"
        ELSE "ColMajor"
dist_to_layout(D) ==
    LET is_wide == D.n_rows < D.n_cols
        fa_long == D.major_axis = "Long"
    IN  IF is_wide /\ fa_long THEN "RowMajor"
        ELSE IF is_wide THEN "ColMajor"
        ELSE IF fa_long THEN "ColMajor"
        ELSE "RowMajor"

\* RNGState(key): counter zero
RNGState(key) == [counter |-> 0, key |-> key]

\* next_state{}: the value-initialized state of a fresh operator
DefaultState == [counter |-> 0, key |-> 0]

\* The sanity checks of the constructor
ConstructorOk(dist, buff) ==
    /\ dist.n_rows > 0
    /\ dist.n_cols > 0
    /\ dist.family = "BlackBox" => buff # Null

\* DenseSkOp(dist, state, buff): the fields of the constructed operator
DenseSkOp(dist, state, buff) ==
    [dist |-> dist, seed_state |-> state, next_state |-> DefaultState,
     buff |-> buff, layout |-> dist_to_layout(dist), del_buff_on_destruct |-> FALSE]

\* The cells of the heap that outlive a call; the temporary of a call is
\* cell "tmp" while the call runs and is kept in the call's outcome.
Cells == {"user", "own"}

\* A cell of the heap: state "none" (never allocated), "live" or "freed"
NoBuf == [state |-> "none", size |-> 0, data |-> <<>>, frees |-> 0]

\* new buffer_type[n_rows * n_cols]
AllocSizeRows(dist) == dist.n_rows
AllocSize(dist) == dist.n_rows * dist.n_cols

\* The seed the fill of realize_full starts from
FillSeed(Sk) == Sk.seed_state

\* realize_full(S, del_buff_on_destruct) on an operator with a null buffer:
\* the operator afterwards (its buffer at heap cell addr) and the new cell
Realized(Sk, addr, del, f) ==
    [S |-> [Sk EXCEPT !.buff = addr, !.next_state = f.ret,
                      !.del_buff_on_destruct = del],
     cell |-> [state |-> "live", size |-> AllocSize(Sk.dist), data |-> f.smat,
               frees |-> 0],
     ctrs |-> f.ctrs]

realize_full(Sk, addr, del) == Realized(Sk, addr, del, fill_buff(Sk.dist, FillSeed(Sk)))

DestructAlways(Sk, h) ==
    IF Sk.buff # Null
    THEN [h EXCEPT ![Sk.buff].state = "freed", ![Sk.buff].frees = @ + 1]
    ELSE h

\* ~DenseSkOp(): the heap after the destructor of operator Sk has run
Destruct(Sk, h) ==
    IF Sk.del_buff_on_destruct /\ Sk.buff # Null
    THEN [h EXCEPT ![Sk.buff].state = "freed", ![Sk.buff].frees = @ + 1]
    ELSE h

\* The contents of a buffer the user hands to the constructor
UserData(dist) == [x \in 0..(dist.n_rows * dist.n_cols - 1) |-> 50 + 3 * x]

----------------------------------------------------------------------------
(* blas::gemm, and the buffers of the caller *)

\* mat(X)[i, j] of a buffer read in a layout with leading dimension ld
MatIdx(layout, ld, i, j) == IF layout = "ColMajor" THEN i + j * ld ELSE i * ld + j

\* op(mat(X))[i, j]
OpIdx(layout, trans, ld, i, j) ==
    IF trans = "NoTrans" THEN MatIdx(layout, ld, i, j) ELSE MatIdx(layout, ld, j, i)

RECURSIVE SumTo(_, _)
SumTo(f, k) == IF k = 0 THEN 0 ELSE f[k - 1] + SumTo(f, k - 1)

\* A pointer into a buffer: reading past the end of the allocation is
\* undefined; it yields whatever lies there, here the value g.
Deref(ptr, x, g) ==
    IF ptr.pos + x < ptr.size THEN ptr.data[ptr.pos + x] ELSE g

\* blas::gemm(layout, transX, transY, M, N, K, alpha, X, ldx, Y, ldy, beta, C, ldc):
\* mat(C) = alpha * op(mat(X)) * op(mat(Y)) + beta * mat(C); C is not read
\* when beta = 0.  X and Y are pointers, C is the caller's buffer.
Gemm(layout, transX, transY, M, N, K, alpha, X, ldx, Y, ldy, beta, C, ldc, g) ==
    [x \in DOMAIN C |->
        IF \E i \in 0..(M - 1), j \in 0..(N - 1) : x = MatIdx(layout, ldc, i, j)
        THEN LET ij == CHOOSE ij \in (0..(M - 1)) \X (0..(N - 1)) :
                            x = MatIdx(layout, ldc, ij[1], ij[2])
                 i == ij[1]
                 j == ij[2]
                 prod == SumTo([k \in 0..(K - 1) |->
                            Deref(X, OpIdx(layout, transX, ldx, i, k), g)
                          * Deref(Y, OpIdx(layout, transY, ldy, k, j), g)], K)
             IN  alpha * prod + (IF beta = 0 THEN 0 ELSE beta * C[x])
        ELSE C[x]]

\* The indices gemm reads through an M x K (after op) operand
GemmReads(layout, trans, ld, M, K) ==
    { OpIdx(layout, trans, ld, i, k) : i \in 0..(M - 1), k \in 0..(K - 1) }

\* The caller's matrices: A is the identity ("eye") or a matrix of distinct
\* entries ("gen"); B holds distinct entries on input.
AVal(akind, i, j) == IF akind = "eye" THEN (IF i = j THEN 1 ELSE 0) ELSE 1 + i + 2 * j
BVal(i, j) == 5 + 2 * i + j
Pad == 0 - 1

\* Entry (i, j) of the matrix named kind: B on entry, or one of the matrices A,
\* or the transpose of one of them ("Bt", "gent"; "eye" is its own)
MatVal(kind, i, j) ==
    IF kind = "B" THEN BVal(i, j)
    ELSE IF kind = "Bt" THEN BVal(j, i)
    ELSE IF kind = "gent" THEN AVal("gen", j, i)
    ELSE AVal(kind, i, j)

\* A rows x cols matrix stored in a layout with leading dimension ld (entries
\* the leading dimension leaves no room for are not stored)
MatBuf(layout, ld, rows, cols, kind) ==
    LET nvec == IF layout = "ColMajor" THEN cols ELSE rows
        vlen == IF layout = "ColMajor" THEN rows ELSE cols
    IN  [x \in 0..(ld * nvec - 1) |->
            LET inner == x % ld
                outer == x \div ld
            IN  IF inner < vlen
                THEN (IF layout = "ColMajor" THEN MatVal(kind, inner, outer) ELSE MatVal(kind, outer, inner))
                ELSE Pad]

----------------------------------------------------------------------------
(* lskge3 and rskge3 *)

\* What a read past the end of a buffer may return
Garbage == {0, 9}

Flip(t) == IF t = "NoTrans" THEN "Trans" ELSE "NoTrans"

NoCall == [routine |-> "none"]

\* pos = i_os + lds * j_os (ColMajor S) or i_os * lds + j_os (RowMajor S)
PosOfTransposed(layout, lds, i_os, j_os) ==
    IF layout = "ColMajor" THEN i_os * lds + j_os ELSE i_os + lds * j_os
PosOf(layout, lds, i_os, j_os) ==
    IF layout = "ColMajor" THEN i_os + lds * j_os ELSE i_os * lds + j_os

\* transS as passed to gemm: flipped when the layouts oppose
GemmTransSNoFlip(opposing, transS) == transS
GemmTransS(opposing, transS) == IF opposing THEN Flip(transS) ELSE transS

\* Dimensions of A, rather than op(A): op(A) is m x n
RowsOfOpA(transA, m, n) == m
RowsA(transA, m, n) == IF transA = "NoTrans" THEN m ELSE n
ColsA(transA, m, n) == IF transA = "NoTrans" THEN n ELSE m

\* The size of the buffer an apply call reads S from: S0's own, or the one
\* realize_full attaches to the shallow copy
SBuffSize(S0, h) == IF S0.buff = Null THEN AllocSize(S0.dist) ELSE h[S0.buff].size

\* lskge3: the argument translation and the sanity checks (lines 479-541)
Lskge3Checks(S0, h, a) ==
    LET opposing == S0.layout # a.layout
        transS   == GemmTransS(opposing, a.transS)
        rows_A   == RowsA(a.transA, a.m, a.n)
        cols_A   == ColsA(a.transA, a.m, a.n)
        rows_submat_S == IF transS = "NoTrans" THEN a.d ELSE a.m
        cols_submat_S == IF transS = "NoTrans" THEN a.m ELSE a.d
        colS     == S0.layout = "ColMajor"
        lds      == IF colS THEN S0.dist.n_rows ELSE S0.dist.n_cols
        chkS     == IF colS
                    THEN (IF opposing THEN lds >= cols_submat_S ELSE lds >= rows_submat_S)
                    ELSE (IF opposing THEN lds >= rows_submat_S ELSE lds >= cols_submat_S)
        pos      == PosOf(S0.layout, lds, a.i_os, a.j_os)
        chkA     == IF a.layout = "ColMajor" THEN a.lda >= rows_A ELSE a.lda >= cols_A
        chkB     == IF a.layout = "ColMajor" THEN a.ldb >= a.d ELSE a.ldb >= a.n
        chkAB    == chkA /\ chkB
    IN  [ok |-> chkS /\ chkAB, transS |-> transS, lds |-> lds, pos |-> pos,
         rows_A |-> rows_A, cols_A |-> cols_A,
         chkS |-> chkS, chkA |-> chkA, chkB |-> chkB,
         oob |-> chkS /\ chkAB /\
                 \E x \in GemmReads(a.layout, transS, lds, a.d, a.m) :
                     pos + x >= SBuffSize(S0, h)]

\* lskge3(layout, transS, transA, d, n, m, alpha, S0, i_os, j_os, A, lda, beta, B, ldb)
\* on operator S0 with heap h; g is what a read past the buffer of S returns.
Lskge3Body(S0, h, a, g, ck, copy0, rf) ==
    LET wasNull  == S0.buff = Null
        copy     == IF wasNull THEN rf.S ELSE copy0
        h1       == [c \in Cells \cup {"tmp"} |->
                        IF c = "tmp" THEN (IF wasNull THEN rf.cell ELSE NoBuf) ELSE h[c]]
        S1       == IF wasNull THEN [S0 EXCEPT !.next_state = copy.next_state] ELSE S0
        cell     == h1[copy.buff]
        Abuf     == MatBuf(a.layout, a.lda, ck.rows_A, ck.cols_A, a.akind)
        Bin      == MatBuf(a.layout, a.ldb, a.d, a.n, a.bkind)
        Sptr     == [data |-> cell.data, size |-> cell.size, pos |-> ck.pos]
        Aptr     == [data |-> Abuf, size |-> Cardinality(DOMAIN Abuf), pos |-> 0]
        \* the destructor of S0_shallow_copy runs at the return and at a throw
        h2       == Destruct(copy, h1)
    IN  [routine |-> "lskge3", a |-> a, status |-> IF ck.ok THEN "ok" ELSE "error",
         wasNull |-> wasNull, before |-> S0, S |-> S1,
         heap |-> h2, tmp |-> h2["tmp"],
         gemms |-> IF ck.ok THEN 1 ELSE 0,
         oob |-> ck.oob,
         B |-> IF ck.ok
               THEN Gemm(a.layout, ck.transS, a.transA, a.d, a.n, a.m, a.alpha,
                         Sptr, ck.lds, Aptr, a.lda, a.beta, Bin, a.ldb, g)
               ELSE Bin]

Lskge3Run(S0, h, a, g) ==
    Lskge3Body(S0, h, a, g, Lskge3Checks(S0, h, a),
               DenseSkOp(S0.dist, S0.seed_state, S0.buff),
               realize_full(DenseSkOp(S0.dist, S0.seed_state, S0.buff), "tmp", TRUE))

\* rskge3: the argument translation and the sanity checks (lines 674-734)
Rskge3Checks(S0, h, a) ==
    LET opposing == S0.layout # a.layout
        transS   == GemmTransS(opposing, a.transS)
        rows_A   == RowsA(a.transA, a.m, a.n)
        cols_A   == ColsA(a.transA, a.m, a.n)
        rows_submat_S == IF transS = "NoTrans" THEN a.n ELSE a.d
        cols_submat_S == IF transS = "NoTrans" THEN a.d ELSE a.n
        chkS     == IF opposing
                    THEN /\ S0.dist.n_rows >= cols_submat_S + a.i_os
                         /\ S0.dist.n_cols >= rows_submat_S + a.j_os
                    ELSE /\ S0.dist.n_rows >= rows_submat_S + a.i_os
                         /\ S0.dist.n_cols >= cols_submat_S + a.j_os
        colS     == S0.layout = "ColMajor"
        lds      == IF colS THEN S0.dist.n_rows ELSE S0.dist.n_cols
        pos      == PosOf(S0.layout, lds, a.i_os, a.j_os)
        chkA     == IF a.layout = "ColMajor" THEN a.lda >= rows_A ELSE a.lda >= cols_A
        chkB     == IF a.layout = "ColMajor" THEN a.ldb >= a.m ELSE a.ldb >= a.d
        chkAB    == chkA /\ chkB
    IN  [ok |-> chkS /\ chkAB, transS |-> transS, lds |-> lds, pos |-> pos,
         rows_A |-> rows_A, cols_A |-> cols_A,
         chkS |-> chkS, chkA |-> chkA, chkB |-> chkB,
         oob |-> chkS /\ chkAB /\
                 \E x \in GemmReads(a.layout, transS, lds, a.n, a.d) :
                     pos + x >= SBuffSize(S0, h)]

\* rskge3(layout, transA, transS, m, d, n, alpha, A, lda, S0, i_os, j_os, beta, B, ldb)
Rskge3Body(S0, h, a, g, ck, copy0, rf) ==
    LET wasNull  == S0.buff = Null
        copy     == IF wasNull THEN rf.S ELSE copy0
        h1       == [c \in Cells \cup {"tmp"} |->
                        IF c = "tmp" THEN (IF wasNull THEN rf.cell ELSE NoBuf) ELSE h[c]]
        cell     == h1[copy.buff]
        Abuf     == MatBuf(a.layout, a.lda, ck.rows_A, ck.cols_A, a.akind)
        Bin      == MatBuf(a.layout, a.ldb, a.m, a.d, a.bkind)
        Sptr     == [data |-> cell.data, size |-> cell.size, pos |-> ck.pos]
        Aptr     == [data |-> Abuf, size |-> Cardinality(DOMAIN Abuf), pos |-> 0]
        h2       == Destruct(copy, h1)
    IN  [routine |-> "rskge3", a |-> a, status |-> IF ck.ok THEN "ok" ELSE "error",
         wasNull |-> wasNull, before |-> S0, S |-> S0,
         heap |-> h2, tmp |-> h2["tmp"],
         gemms |-> IF ck.ok THEN 1 ELSE 0,
         oob |-> ck.oob,
         B |-> IF ck.ok
               THEN Gemm(a.layout, a.transA, ck.transS, a.m, a.d, a.n, a.alpha,
                         Aptr, a.lda, Sptr, ck.lds, a.beta, Bin, a.ldb, g)
               ELSE Bin]

Rskge3Run(S0, h, a, g) ==
    Rskge3Body(S0, h, a, g, Rskge3Checks(S0, h, a),
               DenseSkOp(S0.dist, S0.seed_state, S0.buff),
               realize_full(DenseSkOp(S0.dist, S0.seed_state, S0.buff), "tmp", TRUE))

----------------------------------------------------------------------------
(* SparseSkOp (sparse_skops.hh): the distribution, the operator, the sampling
   of its index arrays by repeated Fisher-Yates shuffles, and its transpose *)

\* Bound: the largest n_rows and n_cols of a sparse distribution, and the
\* largest vec_nnz
MaxSp == 3

\* Bound: the most generator calls one fill_sparse makes (dim_minor * vec_nnz)
MaxCalls == 6

\* The seed counters of the sparse operators
SpCounters == {0, 5}

\* No value of transpose at hand: its status, and no operator
NoSparseOp == [known_filled |-> FALSE]

NoView == [status |-> "none", op |-> NoSparseOp]

\* What the generator can return for one counter: rv[0] and rv[1].
\* repeated_fisher_yates reads rv[0] modulo at most dim_major and rv[1] modulo 2
RVals == [r0 : 0..(MaxSp - 1), r1 : {0, 1}]

MinOf(a, b) == IF a < b THEN a ELSE b

MaxOf(a, b) == IF a < b THEN b ELSE a

\* compute_next_state: the seed advanced by minor_len * vec_nnz
compute_next_state(dist, state) ==
    LET minor_len == IF dist.major_axis = "Short"
                     THEN MinOf(dist.n_rows, dist.n_cols)
                     ELSE MaxOf(dist.n_rows, dist.n_cols)
    IN  [counter |-> Incr(state.counter, minor_len * dist.vec_nnz), key |-> state.key]

\* The preconditions all constructors of SparseSkOp state
SparseConstructorOkDims(dist) == dist.n_rows > 0 /\ dist.n_cols > 0

SparseConstructorOk(dist) == dist.n_rows > 0 /\ dist.n_cols > 0 /\ dist.vec_nnz > 0

\* The allocating constructor: nnz = vec_nnz * minor_ax_len entries per array
SparseAllocSize(dist) ==
    LET minor_ax_len == IF dist.major_axis = "Short"
                        THEN MaxOf(dist.n_rows, dist.n_cols)
                        ELSE MinOf(dist.n_rows, dist.n_cols)
    IN  dist.vec_nnz * minor_ax_len

SparseSkOp(dist, state) ==
    [dist |-> dist, seed_state |-> state, next_state |-> compute_next_state(dist, state),
     own_memory |-> TRUE, known_filled |-> FALSE,
     rows |-> "rows", cols |-> "cols", vals |-> "vals"]

SparseViewOwning(dist, state, rows, cols, vals) ==
    [dist |-> dist, seed_state |-> state, next_state |-> compute_next_state(dist, state),
     own_memory |-> TRUE, known_filled |-> TRUE,
     rows |-> rows, cols |-> cols, vals |-> vals]

\* The constructor on the caller's arrays, known_filled defaulted to true
SparseView(dist, state, rows, cols, vals) ==
    [dist |-> dist, seed_state |-> state, next_state |-> compute_next_state(dist, state),
     own_memory |-> FALSE, known_filled |-> TRUE,
     rows |-> rows, cols |-> cols, vals |-> vals]

\* The constructor "useful for shallow copies": next_state is passed in, and
\* known_filled keeps its default (line 309 assigns the member to itself)
SparseCopy(dist, seed_state, rows, cols, vals, next_state) ==
    [dist |-> dist, seed_state |-> seed_state, next_state |-> next_state,
     own_memory |-> FALSE, known_filled |-> FALSE,
     rows |-> rows, cols |-> cols, vals |-> vals]

SpNoCell == [state |-> "none", data |-> <<>>]

SpEmptyHeap == [rows |-> SpNoCell, cols |-> SpNoCell, vals |-> SpNoCell]

\* An entry of rows, cols or vals that nothing was stored in yet; indices are
\* not negative and values are 1 or -1
SpUnset == -2

SpCell(size) == [state |-> "live", data |-> [x \in 0..(size - 1) |-> SpUnset]]

\* ~SparseSkOp: delete [] rows, cols, vals when own_memory
SparseDestruct(op, h) ==
    IF op.own_memory
    THEN [c \in DOMAIN h |-> IF c \in {op.rows, op.cols, op.vals}
                             THEN [h[c] EXCEPT !.state = "freed"] ELSE h[c]]
    ELSE h

\* fill_sparse: the lengths of the axes and the roles of the index arrays
IsWideNot(dist) == dist.n_rows # MinOf(dist.n_rows, dist.n_cols)

IsWide(dist) == dist.n_rows = MinOf(dist.n_rows, dist.n_cols)

ShortAxIdxs(op) == IF IsWide(op.dist) THEN op.rows ELSE op.cols

LongAxIdxs(op) == IF IsWide(op.dist) THEN op.cols ELSE op.rows

\* The arguments fill_sparse passes to repeated_fisher_yates
DimMajorShort(dist) == MinOf(dist.n_rows, dist.n_cols)

DimMajor(dist) ==
    IF dist.major_axis = "Short" THEN MinOf(dist.n_rows, dist.n_cols)
                                 ELSE MaxOf(dist.n_rows, dist.n_cols)

DimMinor(dist) ==
    IF dist.major_axis = "Short" THEN MaxOf(dist.n_rows, dist.n_cols)
                                 ELSE MinOf(dist.n_rows, dist.n_cols)

IdxsMajor(op) == IF op.dist.major_axis = "Short" THEN ShortAxIdxs(op) ELSE LongAxIdxs(op)

IdxsMinor(op) == IF op.dist.major_axis = "Short" THEN LongAxIdxs(op) ELSE ShortAxIdxs(op)

\* ell = j + rv[0] % (dim_major - j)
PivotNoShift(j, r0, dim_major) == r0 % (dim_major - j)

Pivot(j, r0, dim_major) == j + (r0 % (dim_major - j))

\* vals[j + offset] = (rv[1] % 2 == 0) ? 1.0 : -1.0
Sign(r1) == IF r1 % 2 = 0 THEN 1 ELSE -1

\* One pass of the inner loop on vec_work: the pivot, the swap, the index stored
FyInner(vec_work, j, r0, dim_major) ==
    LET ell == Pivot(j, r0, dim_major)
        swap == vec_work[ell]
    IN  [ell |-> ell, swap |-> swap,
         vec_work |-> [[vec_work EXCEPT ![ell] = vec_work[j]] EXCEPT ![j] = swap]]

RECURSIVE RestoreLoopForward(_, _, _, _, _, _)
RestoreLoopForward(vec_work, idxs_major, pivots, vec_nnz, offset, j) ==
    IF j > vec_nnz THEN vec_work
    ELSE LET jj == j - 1
             swap == idxs_major[jj + offset]
             ell == pivots[jj]
         IN  RestoreLoopForward([[vec_work EXCEPT ![jj] = vec_work[ell]] EXCEPT ![ell] = swap],
                                idxs_major, pivots, vec_nnz, offset, j + 1)

RECURSIVE RestoreLoop(_, _, _, _, _, _)
\* for (j = 1; j <= vec_nnz; ++j) { jj = vec_nnz - j; swap = idxs_major[jj + offset];
\*   ell = pivots[jj]; vec_work[jj] = vec_work[ell]; vec_work[ell] = swap; }
RestoreLoop(vec_work, idxs_major, pivots, vec_nnz, offset, j) ==
    IF j > vec_nnz THEN vec_work
    ELSE LET jj == vec_nnz - j
             swap == idxs_major[jj + offset]
             ell == pivots[jj]
         IN  RestoreLoop([[vec_work EXCEPT ![jj] = vec_work[ell]] EXCEPT ![ell] = swap],
                         idxs_major, pivots, vec_nnz, offset, j + 1)

RestoreNone(vec_work, idxs_major, pivots, vec_nnz, offset) == vec_work

Restore(vec_work, idxs_major, pivots, vec_nnz, offset) ==
    RestoreLoop(vec_work, idxs_major, pivots, vec_nnz, offset, 1)

FyIdle == [pc |-> "idle"]

\* COOMatrix<T, sint_t> A(n_rows, n_cols, nnz, vals, rows, cols): a view, the
\* arrays are those of the operator
NoCoo == [n_rows |-> 0, n_cols |-> 0, nnz |-> 0, vals |-> "none", rows |-> "none", cols |-> "none"]

NoCooView == [status |-> "none", fills |-> 0, made |-> 0, A |-> NoCoo]

SpIdle ==
    /\ splife = "new" /\ sp = NoOp /\ sheap = SpEmptyHeap /\ fy = FyIdle
    /\ St = NoView /\ Stt = NoView /\ cv = NoCooView

----------------------------------------------------------------------------
(* Spec: the life of one DenseSkOp in the hands of its caller *)

\* The key of the seed: nonzero, so that the seed differs from next_state{}
Keys == {1}

\* The arguments of an apply call.  The scalars come with the matrix A they
\* are used with: alpha = 1, beta = 0 with the identity, alpha = 2, beta = 1
\* with a general A.  The caller stores A and B with one leading dimension.
Scalars == { [alpha |-> 1, beta |-> 0, akind |-> "eye"],
             [alpha |-> 2, beta |-> 1, akind |-> "gen"] }

Args ==
    { [layout |-> l, transS |-> ts, transA |-> ta, d |-> d, n |-> n, m |-> m,
       i_os |-> io, j_os |-> jo, lda |-> ld, ldb |-> ld,
       alpha |-> sc.alpha, beta |-> sc.beta, akind |-> sc.akind, bkind |-> "B"] :
        l \in Layouts, ts \in TransOps, ta \in TransOps,
        d \in 1..MaxSub, n \in 1..MaxSub, m \in 1..MaxSub,
        io \in 0..MaxOff, jo \in 0..MaxOff,
        ld \in 1..MaxLd, sc \in Scalars }

EmptyHeap == [c \in Cells |-> NoBuf]

OpInit ==
    /\ life = "new"
    /\ S = NoOp
    /\ heap = EmptyHeap
    /\ call = NoCall

\* DenseSkOp<T> S(DenseDist{n_rows, n_cols, family, ma}, key, buff), with
\* buff null or a buffer of n_rows * n_cols entries of the caller
Construct(dist, key, withBuff) ==
    /\ life = "new"
    /\ LET buff == IF withBuff THEN "user" ELSE Null
       IN  IF ConstructorOk(dist, buff)
           THEN /\ life' = "alive"
                /\ S' = DenseSkOp(dist, RNGState(key), buff)
                /\ heap' = IF withBuff
                           THEN [heap EXCEPT !["user"] =
                                    [state |-> "live", size |-> dist.n_rows * dist.n_cols,
                                     data |-> UserData(dist), frees |-> 0]]
                           ELSE heap
           ELSE /\ life' = "failed"
                /\ UNCHANGED <<S, heap>>
    /\ UNCHANGED call
    /\ UNCHANGED fillVars
    /\ UNCHANGED spVars

\* realize_full leaves the operator rf.S, its buffer the new cell "own"
Attach(rf) ==
    /\ S' = rf.S
    /\ heap' = [heap EXCEPT !["own"] = rf.cell]

\* realize_full(S, del)
RealizeFull(del) ==
    /\ life = "alive"
    /\ IF S.buff = Null
       THEN /\ Attach(realize_full(S, "own", del))
            /\ UNCHANGED call
       ELSE \* randblas_require(!S.buff) throws
            /\ call = NoCall
            /\ call' = [routine |-> "realize_full", status |-> "error"]
            /\ UNCHANGED <<S, heap>>
    /\ UNCHANGED life
    /\ UNCHANGED fillVars
    /\ UNCHANGED spVars

\* The outcome of a call as the caller sees it
Outcome(r) ==
    [routine |-> r.routine, a |-> r.a, status |-> r.status,
     wasNull |-> r.wasNull, before |-> r.before.next_state,
     tmp |-> [state |-> r.tmp.state, size |-> r.tmp.size, frees |-> r.tmp.frees],
     gemms |-> r.gemms, oob |-> r.oob, B |-> r.B]

\* The call returns (or throws): the operator, the heap and the outcome it leaves
Return(r) ==
    /\ S' = r.S
    /\ heap' = [c \in Cells |-> r.heap[c]]
    /\ call' = Outcome(r)

Lskge3(a) ==
    /\ life = "alive"
    /\ \E g \in (IF Lskge3Checks(S, heap, a).oob THEN Garbage ELSE {0}) :
         Return(Lskge3Run(S, heap, a, g))
    /\ UNCHANGED life
    /\ UNCHANGED fillVars
    /\ UNCHANGED spVars

Rskge3(a) ==
    /\ life = "alive"
    /\ \E g \in (IF Rskge3Checks(S, heap, a).oob THEN Garbage ELSE {0}) :
         Return(Rskge3Run(S, heap, a, g))
    /\ UNCHANGED life
    /\ UNCHANGED fillVars
    /\ UNCHANGED spVars

\* The caller is done with the outcome of the last call
Forget ==
    /\ call # NoCall
    /\ call' = NoCall
    /\ UNCHANGED <<life, S, heap>>
    /\ UNCHANGED fillVars
    /\ UNCHANGED spVars

\* The operator goes out of scope: ~DenseSkOp()
Destroy ==
    /\ life = "alive"
    /\ call = NoCall
    /\ life' = "destroyed"
    /\ heap' = Destruct(S, heap)
    /\ UNCHANGED <<S, call>>
    /\ UNCHANGED fillVars
    /\ UNCHANGED spVars

\* The dimensions tried: 0 (the constructor throws) and 2..MaxDim (an operator
\* with room for a proper block)
Dims == {0 - 1, 0} \cup (2..MaxDim)

Dists ==
    [n_rows : Dims, n_cols : Dims, family : Families, major_axis : MajorAxes]

Next ==
    \/ life = "new" /\ \E dist \in Dists, key \in Keys, withBuff \in BOOLEAN :
            Construct(dist, key, withBuff)
    \/ \E del \in BOOLEAN : RealizeFull(del)
    \/ call = NoCall /\ life = "alive" /\ \E a \in Args : Lskge3(a)
    \/ call = NoCall /\ life = "alive" /\ \E a \in Args : Rskge3(a)
    \/ Forget
    \/ Destroy

FillIdle ==
    /\ fp = NoFill /\ wk = <<>> /\ rowsDone = {} /\ smat = <<>> /\ wrote = <<>>
    /\ glog = <<>> /\ fret = NoState /\ fpc = "idle"

Init == OpInit /\ FillIdle /\ SpIdle

Spec == Init /\ [][Next]_vars

----------------------------------------------------------------------------
(* SpecFill: one call of fill_rsubmat_omp run by the workers of the region *)

Workers == 1..MaxWorkers

FillInit ==
    /\ \E nc \in 1..MaxCols, nsr \in 1..MaxRows, ptr \in 0..MaxPtr, seed \in Seeds, op \in Ops :
         \E nsc \in 1..nc :
           /\ fp = FillParams(nc, nsr, nsc, ptr, seed, op)
           /\ smat = [x \in 0..(nsr * nsc - 1) |-> Unset]
           /\ wrote = [x \in 0..(nsr * nsc - 1) |-> 0]
           \* firstprivate(c, k); auto cc = c; prev = 0;
           /\ wk = [w \in Workers |-> [cc |-> seed.counter, prev |-> 0, last |-> -1]]
    /\ rowsDone = {}
    /\ glog = [r \in {} |-> 0]
    /\ fret = NoState
    /\ fpc = "run"
    /\ OpInit
    /\ SpIdle

\* Worker w runs the loop body for a row the schedule hands it: any row not
\* yet run that lies after the rows w ran before (#pragma omp for).  The
\* threads are interchangeable, so they are numbered in the order in which
\* they take their first row.
FillRow(w, row) ==
    /\ fpc = "run"
    /\ row \in 0..(fp.n_srows - 1)
    /\ row \notin rowsDone
    /\ row > wk[w].last
    /\ IF w = 1 THEN TRUE ELSE wk[w - 1].last >= 0
    /\ LET s == RowStep(fp, wk[w].cc, wk[w].prev, row)
       IN  /\ smat' = WriteRow(smat, fp, row, s.vals)
           /\ wrote' = [x \in DOMAIN wrote |->
                          IF x >= row * fp.n_scols /\ x < row * fp.n_scols + Len(s.vals)
                          THEN wrote[x] + 1 ELSE wrote[x]]
           /\ wk' = [wk EXCEPT ![w] = [cc |-> s.cc, prev |-> s.prev, last |-> row]]
           /\ glog' = [r \in rowsDone \cup {row} |->
                          IF r = row
                          THEN [worker |-> w, ctrs |-> s.ctrs, inc0 |-> s.inc0,
                                r0 |-> s.r0, r1 |-> s.r1, writes |-> Len(s.vals)]
                          ELSE glog[r]]
    /\ rowsDone' = rowsDone \cup {row}
    /\ UNCHANGED <<fp, fret, fpc>>
    /\ UNCHANGED opVars
    /\ UNCHANGED spVars

\* The join of the parallel region and the return of RNGState<RNG> {c, k}
FillReturn ==
    /\ fpc = "run"
    /\ rowsDone = 0..(fp.n_srows - 1)
    /\ fret' = [counter |-> fp.seed.counter, key |-> fp.seed.key]
    /\ fpc' = "done"
    /\ UNCHANGED <<fp, wk, rowsDone, smat, wrote, glog>>
    /\ UNCHANGED opVars
    /\ UNCHANGED spVars

FillNext ==
    \/ \E w \in Workers, row \in 0..(MaxRows - 1) : FillRow(w, row)
    \/ FillReturn

SpecFill == FillInit /\ [][FillNext]_vars

----------------------------------------------------------------------------
(* SpecPair: an operator applied several times in a row, the outcome of the
   previous call still at hand, with a smaller choice of operators and
   arguments *)

PairDists ==
    [n_rows : {2}, n_cols : 2..MaxDim, family : {"Gaussian", "BlackBox"}, major_axis : MajorAxes]

PairArgs == { a \in Args : a.n = 1 /\ a.lda = MaxLd /\ a.transA = "NoTrans" /\ a.akind = "eye" }

PairNext ==
    \/ life = "new" /\ \E dist \in PairDists, key \in Keys, withBuff \in BOOLEAN :
            Construct(dist, key, withBuff)
    \/ \E del \in BOOLEAN : RealizeFull(del)
    \/ life = "alive" /\ \E a \in PairArgs : Lskge3(a)
    \/ life = "alive" /\ \E a \in PairArgs : Rskge3(a)
    \/ Forget
    \/ Destroy

SpecPair == Init /\ [][PairNext]_vars

----------------------------------------------------------------------------
(* SpecSparse: the life of one SparseSkOp: the allocating constructor,
   fill_sparse one generator call at a time, transpose of the operator and
   of its transpose, and the destructors *)

SpDims == (0 - 1)..MaxSp

\* The generator calls fill_sparse makes on an operator of this distribution
Calls(dist) == IF dist.vec_nnz > DimMajor(dist) THEN 0 ELSE DimMinor(dist) * dist.vec_nnz

SpDists ==
    { dist \in [n_rows : SpDims, n_cols : SpDims, vec_nnz : SpDims, major_axis : MajorAxes] :
        Calls(dist) <= MaxCalls }

\* SparseSkOp<T> S(dist, state): rows, cols and vals are allocated, not filled
SpConstruct(dist, state) ==
    /\ splife = "new"
    /\ IF SparseConstructorOk(dist)
       THEN /\ splife' = "alive"
            /\ sp' = SparseSkOp(dist, state)
            /\ sheap' = [c \in DOMAIN sheap |-> SpCell(SparseAllocSize(dist))]
       ELSE /\ splife' = "failed"
            /\ UNCHANGED <<sp, sheap>>
    /\ UNCHANGED <<fy, St, Stt>>
    /\ UNCHANGED cv
    /\ UNCHANGED denseVars

\* The arrays rows, cols and vals the caller allocated, nothing stored in them
UserArrays(dist) == [c \in DOMAIN SpEmptyHeap |-> SpCell(SparseAllocSize(dist))]

\* SparseSkOp<T> S(dist, state, rows, cols, vals, known_filled) on arrays of
\* the caller; known_filled is true when the argument is left out
SpConstructUser(dist, state, known_filled) ==
    /\ splife = "new"
    /\ IF SparseConstructorOk(dist)
       THEN /\ splife' = "alive"
            /\ sp' = [SparseView(dist, state, "rows", "cols", "vals")
                         EXCEPT !.known_filled = known_filled]
            /\ sheap' = UserArrays(dist)
       ELSE /\ splife' = "failed"
            /\ UNCHANGED <<sp, sheap>>
    /\ UNCHANGED <<fy, St, Stt>>
    /\ UNCHANGED cv
    /\ UNCHANGED denseVars

\* SparseSkOp<T> S(dist, seed_state, rows, cols, vals, next_state) on arrays
\* of the caller
SpConstructCopy(dist, state, next_state) ==
    /\ splife = "new"
    /\ IF SparseConstructorOk(dist)
       THEN /\ splife' = "alive"
            /\ sp' = SparseCopy(dist, state, "rows", "cols", "vals", next_state)
            /\ sheap' = UserArrays(dist)
       ELSE /\ splife' = "failed"
            /\ UNCHANGED <<sp, sheap>>
    /\ UNCHANGED <<fy, St, Stt>>
    /\ UNCHANGED cv
    /\ UNCHANGED denseVars

\* fill_sparse(S) up to the first generator call of repeated_fisher_yates:
\* randblas_error_if(vec_nnz > dim_major), vec_work = 0, 1, ..., dim_major - 1
FillSparse ==
    /\ splife = "alive"
    /\ fy.pc = "idle"
    /\ fy' = IF sp.dist.vec_nnz > DimMajor(sp.dist)
             THEN [pc |-> "error"]
             ELSE [pc |-> "run", i |-> 0, j |-> 0,
                   vec_work |-> [x \in 0..(DimMajor(sp.dist) - 1) |-> x],
                   pivots |-> [x \in 0..(sp.dist.vec_nnz - 1) |-> 0],
                   log |-> <<>>, ls |-> 0]
    /\ UNCHANGED <<splife, sp, sheap, St, Stt>>
    /\ UNCHANGED cv
    /\ UNCHANGED denseVars

\* One pass of the inner loop of repeated_fisher_yates, rv the value the
\* generator returns for (ctr_work, key).  The pass that ends a slice also
\* runs the loop that restores vec_work; the pass that ends the last slice
\* returns to fill_sparse, which sets known_filled.
FyStep(rv) ==
    /\ fy.pc = "run"
    /\ LET vec_nnz == sp.dist.vec_nnz
           offset == fy.i * vec_nnz
           ctr_work == Incr(Incr(sp.seed_state.counter, offset), fy.j)
           s == FyInner(fy.vec_work, fy.j, rv.r0, DimMajor(sp.dist))
           pivots == [fy.pivots EXCEPT ![fy.j] = s.ell]
           h == [c \in DOMAIN sheap |->
                   IF c = IdxsMajor(sp)
                   THEN [sheap[c] EXCEPT !.data[fy.j + offset] = s.swap]
                   ELSE IF c = IdxsMinor(sp)
                   THEN [sheap[c] EXCEPT !.data[fy.j + offset] = fy.i]
                   ELSE IF c = sp.vals
                   THEN [sheap[c] EXCEPT !.data[fy.j + offset] = Sign(rv.r1)]
                   ELSE sheap[c]]
           e == [ctr |-> ctr_work, key |-> sp.seed_state.key, r0 |-> rv.r0, r1 |-> rv.r1]
           log == IF fy.j = 0 THEN <<e>> ELSE Append(fy.log, e)
           last == fy.j = vec_nnz - 1
           done == last /\ fy.i = DimMinor(sp.dist) - 1
       IN  /\ sheap' = h
           /\ fy' = [pc |-> IF done THEN "done" ELSE "run",
                     i |-> IF last THEN fy.i + 1 ELSE fy.i,
                     j |-> IF last THEN 0 ELSE fy.j + 1,
                     vec_work |-> IF last
                                  THEN Restore(s.vec_work, h[IdxsMajor(sp)].data,
                                               pivots, vec_nnz, offset)
                                  ELSE s.vec_work,
                     pivots |-> pivots, log |-> log, ls |-> fy.i]
           /\ sp' = IF done THEN [sp EXCEPT !.known_filled = TRUE] ELSE sp
    /\ UNCHANGED <<splife, St, Stt>>
    /\ UNCHANGED cv
    /\ UNCHANGED denseVars

TransposedDistSlip(dist) ==
    [n_rows |-> dist.n_cols, n_cols |-> dist.n_cols,
     vec_nnz |-> dist.vec_nnz, major_axis |-> dist.major_axis]

TransposedDist(dist) ==
    [n_rows |-> dist.n_cols, n_cols |-> dist.n_rows,
     vec_nnz |-> dist.vec_nnz, major_axis |-> dist.major_axis]

\* transpose(S) past its randblas_require(S.known_filled)
transpose(op) ==
    [SparseView(TransposedDist(op.dist), op.seed_state, op.cols, op.rows, op.vals)
        EXCEPT !.next_state = op.next_state]

\* What the caller holds after auto St = transpose(S)
Transposed(op) ==
    IF op.known_filled THEN [status |-> "ok", op |-> transpose(op)]
                       ELSE [status |-> "error", op |-> NoSparseOp]

\* auto St = transpose(S)
Transpose ==
    /\ splife = "alive"
    /\ fy.pc # "run"
    /\ St.status # "ok"
    /\ St' = Transposed(sp)
    /\ UNCHANGED <<splife, sp, sheap, fy, Stt>>
    /\ UNCHANGED cv
    /\ UNCHANGED denseVars

\* auto Stt = transpose(St)
TransposeBack ==
    /\ St.status = "ok"
    /\ Stt.status # "ok"
    /\ Stt' = Transposed(St.op)
    /\ UNCHANGED <<splife, sp, sheap, fy, St>>
    /\ UNCHANGED cv
    /\ UNCHANGED denseVars

\* St goes out of scope
DestroyView ==
    /\ St.status = "ok"
    /\ sheap' = SparseDestruct(St.op, sheap)
    /\ St' = NoView
    /\ UNCHANGED <<splife, sp, fy, Stt>>
    /\ UNCHANGED cv
    /\ UNCHANGED denseVars

\* Stt goes out of scope
DestroyViewBack ==
    /\ Stt.status = "ok"
    /\ sheap' = SparseDestruct(Stt.op, sheap)
    /\ Stt' = NoView
    /\ UNCHANGED <<splife, sp, fy, St>>
    /\ UNCHANGED cv
    /\ UNCHANGED denseVars

\* S goes out of scope, after the views of it
SpDestroy ==
    /\ splife = "alive"
    /\ fy.pc # "run"
    /\ St.status # "ok" /\ Stt.status # "ok"
    /\ splife' = "destroyed"
    /\ sheap' = SparseDestruct(sp, sheap)
    /\ UNCHANGED <<sp, fy, St, Stt>>
    /\ UNCHANGED cv
    /\ UNCHANGED denseVars

SpNext ==
    \/ splife = "new" /\ \E dist \in SpDists, c \in SpCounters :
            SpConstruct(dist, [counter |-> c, key |-> 1])
    \/ FillSparse
    \/ \E rv \in RVals : FyStep(rv)
    \/ Transpose
    \/ TransposeBack
    \/ DestroyView
    \/ DestroyViewBack
    \/ SpDestroy

SpecSparse == Init /\ [][SpNext]_vars

----------------------------------------------------------------------------
(* SpecCtor: the constructors of DenseSkOp and of SparseSkOp, on valid and on
   invalid distributions *)

CtorNext ==
    \/ life = "new" /\ \E dist \in Dists, key \in Keys, withBuff \in BOOLEAN :
            Construct(dist, key, withBuff)
    \/ splife = "new" /\ \E dist \in SpDists, c \in SpCounters :
            SpConstruct(dist, [counter |-> c, key |-> 1])
    \/ splife = "new" /\ \E dist \in SpDists, c \in SpCounters, known_filled \in BOOLEAN :
            SpConstructUser(dist, [counter |-> c, key |-> 1], known_filled)
    \/ splife = "new" /\ \E dist \in SpDists, c \in SpCounters :
            SpConstructCopy(dist, [counter |-> c, key |-> 1],
                            [counter |-> c + MaxCalls, key |-> 1])

SpecCtor == Init /\ [][CtorNext]_vars

----------------------------------------------------------------------------
(* lsksp3 and rsksp3: a DenseSkOp applied to a sparse matrix A. Only the
   shape of A matters to the control flow; the SpMM kernel itself is outside
   the sources, so a dispatch is recorded with the arguments it is given. *)

\* The shapes of the sparse operand: square, of every size
SparseMats == { [n_rows |-> k, n_cols |-> k] : k \in 1..MaxSub }

\* The calls tried: A of every size, with one offset into the rows and columns
\* of A and independent offsets into S
SkspArgs ==
    { [layout |-> l, opS |-> ts, opA |-> ta, d |-> d, n |-> 1, m |-> m,
       ro_s |-> rs, co_s |-> cs, A |-> A, ro_a |-> oa, co_a |-> oa, ldb |-> ld] :
        l \in Layouts, ts \in TransOps, ta \in TransOps,
        d \in 1..MaxSub, m \in 1..MaxSub,
        rs \in 0..MaxOff, cs \in 0..MaxOff,
        A \in SparseMats, oa \in 0..MaxOff,
        ld \in 1..MaxLd }

\* dims_before_op(m, n, op): the shape of the matrix that op turns into m x n
dims_before_op(m, n, op) ==
    IF op = "NoTrans" THEN [rows |-> m, cols |-> n] ELSE [rows |-> n, cols |-> m]

\* offset_and_ldim(layout, n_rows, n_cols, ro, co)
offset_and_ldim(layout, n_rows, n_cols, ro, co) ==
    IF layout = "ColMajor"
    THEN [pos |-> ro + n_rows * co, lds |-> n_rows]
    ELSE [pos |-> ro * n_cols + co, lds |-> n_cols]

\* submatrix_as_blackbox(S, n_rows, n_cols, ro_s, co_s): a temporary BlackBox
\* operator over a new buffer holding exactly that submatrix, in the layout lay
submatrix_as_blackbox(S0, n_rows, n_cols, lay) ==
    [S0 EXCEPT !.dist = [n_rows |-> n_rows, n_cols |-> n_cols,
                         family |-> "BlackBox", major_axis |-> S0.dist.major_axis],
               !.buff = "tmp", !.layout = lay, !.del_buff_on_destruct = TRUE]

\* opS as passed to the SpMM primitive
SkspOpSNoFlip(Slayout, layout, opS) == opS
SkspOpS(Slayout, layout, opS) == IF Slayout # layout THEN Flip(opS) ELSE opS

\* The randblas_require checks of lsksp3 (ldRow = n) and rsksp3 (ldRow = d),
\* in the order of the code, the first failure throwing
SkspChecks(S0, a, sub, ro_s, co_s, ldCol, ldRow) ==
    LET subA == dims_before_op(a.m, a.n, a.opA)
    IN  [A_rows |-> a.A.n_rows >= subA.rows + a.ro_a,
         A_cols |-> a.A.n_cols >= subA.cols + a.co_a,
         S_rows |-> S0.dist.n_rows >= sub.rows + ro_s,
         S_cols |-> S0.dist.n_cols >= sub.cols + co_s,
         ldb    |-> IF a.layout = "ColMajor" THEN a.ldb >= ldCol ELSE a.ldb >= ldRow]

SkspChecksOk(c) == c.A_rows /\ c.A_cols /\ c.S_rows /\ c.S_cols /\ c.ldb

\* The part of either routine that runs on an operator with a buffer
SkspDispatch(routine, primitive, S0, a, ro_s, co_s, checks, level, tmp) ==
    IF SkspChecksOk(checks)
    THEN [routine |-> routine, a |-> a, status |-> "ok", levels |-> level,
          checks |-> checks, dispatches |-> 1, primitive |-> primitive,
          opS |-> SkspOpS(S0.layout, a.layout, a.opS),
          Slayout |-> S0.layout, buff |-> S0.buff, ro_s |-> ro_s, co_s |-> co_s,
          pos |-> offset_and_ldim(S0.layout, S0.dist.n_rows, S0.dist.n_cols, ro_s, co_s).pos,
          lds |-> offset_and_ldim(S0.layout, S0.dist.n_rows, S0.dist.n_cols, ro_s, co_s).lds,
          tmp |-> tmp]
    ELSE [routine |-> routine, a |-> a, status |-> "error", levels |-> level,
          checks |-> checks, dispatches |-> 0, primitive |-> "none",
          opS |-> a.opS,
          Slayout |-> S0.layout, buff |-> S0.buff, ro_s |-> ro_s, co_s |-> co_s,
          pos |-> 0, lds |-> 0,
          tmp |-> tmp]

\* The temporary of a call: none, or allocated once and freed once on the way out
SkspNoTmp == [state |-> "none", frees |-> 0]
SkspTmpFreed == [state |-> "freed", frees |-> 1]

\* lsksp3(layout, opS, opA, d, n, m, alpha, S, ro_s, co_s, A, ro_a, co_a, beta, B, ldb)
RECURSIVE Lsksp3Run(_, _, _, _, _, _, _)
Lsksp3Run(S0, a, ro_s, co_s, level, tmp, lay) ==
    LET sub == dims_before_op(a.d, a.m, a.opS)
    IN  IF S0.buff = Null
        THEN Lsksp3Run(submatrix_as_blackbox(S0, sub.rows, sub.cols, lay), a, 0, 0,
                       level + 1, SkspTmpFreed, lay)
        ELSE SkspDispatch("lsksp3", "right_spmm", S0, a, ro_s, co_s,
                          SkspChecks(S0, a, sub, ro_s, co_s, a.d, a.n), level, tmp)

\* rsksp3(layout, opA, opS, m, d, n, alpha, A, ro_a, co_a, S, ro_s, co_s, beta, B, ldb)
RECURSIVE Rsksp3Run(_, _, _, _, _, _, _)
Rsksp3Run(S0, a, ro_s, co_s, level, tmp, lay) ==
    LET sub == dims_before_op(a.n, a.d, a.opS)
    IN  IF S0.buff = Null
        THEN Rsksp3Run(submatrix_as_blackbox(S0, sub.rows, sub.cols, lay), a, 0, 0,
                       level + 1, SkspTmpFreed, lay)
        ELSE SkspDispatch("rsksp3", "left_spmm", S0, a, ro_s, co_s,
                          SkspChecks(S0, a, sub, ro_s, co_s, a.m, a.d), level, tmp)

\* The layouts the temporary may come in: the sources do not fix it
TmpLayouts(S0) == IF S0.buff = Null THEN Layouts ELSE {S0.layout}

Lsksp3(a) ==
    /\ life = "alive"
    /\ call = NoCall
    /\ \E lay \in TmpLayouts(S) :
         call' = Lsksp3Run(S, a, a.ro_s, a.co_s, 0, SkspNoTmp, lay)
    /\ UNCHANGED <<life, S, heap>>
    /\ UNCHANGED fillVars
    /\ UNCHANGED spVars

Rsksp3(a) ==
    /\ life = "alive"
    /\ call = NoCall
    /\ \E lay \in TmpLayouts(S) :
         call' = Rsksp3Run(S, a, a.ro_s, a.co_s, 0, SkspNoTmp, lay)
    /\ UNCHANGED <<life, S, heap>>
    /\ UNCHANGED fillVars
    /\ UNCHANGED spVars

SkspNext ==
    \/ life = "new" /\ \E dist \in PairDists, key \in Keys, withBuff \in BOOLEAN :
            Construct(dist, key, withBuff)
    \/ \E del \in BOOLEAN : RealizeFull(del)
    \/ life = "alive" /\ call = NoCall /\ \E a \in SkspArgs : Lsksp3(a)
    \/ life = "alive" /\ call = NoCall /\ \E a \in SkspArgs : Rsksp3(a)
    \/ Forget
    \/ Destroy

SpecSksp == Init /\ [][SkspNext]_vars

----------------------------------------------------------------------------
(* SpecView: fill_sparse as one step, with a generator that is a function of
   the counter and the key, on operators of every constructor; the views
   coo_view_of_skop and transpose give of them *)

MaxFills == 2
MaxViews == 2

SpKeys == {1, 2}

\* gen(cc, key): rv[0] and rv[1], a function of the counter and the key alone
SpGenerate(cc, key) ==
    [r0 |-> 3 * cc + key + (cc \div 2), r1 |-> (cc \div key) + key]

\* repeated_fisher_yates from the pass (i, j) on: the arrays when it returns
RECURSIVE FyRun(_, _, _, _, _, _)
FyRun(op, h, i, j, vec_work, pivots) ==
    IF i >= DimMinor(op.dist) THEN h
    ELSE LET vec_nnz == op.dist.vec_nnz
             offset == i * vec_nnz
             rv == SpGenerate(Incr(Incr(op.seed_state.counter, offset), j), op.seed_state.key)
             s == FyInner(vec_work, j, rv.r0, DimMajor(op.dist))
             pv == [pivots EXCEPT ![j] = s.ell]
             h2 == [c \in DOMAIN h |->
                     IF c = IdxsMajor(op)
                     THEN [h[c] EXCEPT !.data[j + offset] = s.swap]
                     ELSE IF c = IdxsMinor(op)
                     THEN [h[c] EXCEPT !.data[j + offset] = i]
                     ELSE IF c = op.vals
                     THEN [h[c] EXCEPT !.data[j + offset] = Sign(rv.r1)]
                     ELSE h[c]]
         IN  IF j = vec_nnz - 1
             THEN FyRun(op, h2, i + 1, 0,
                        Restore(s.vec_work, h2[IdxsMajor(op)].data, pv, vec_nnz, offset), pv)
             ELSE FyRun(op, h2, i, j + 1, s.vec_work, pv)

\* fill_sparse(S): throws before any write when vec_nnz > dim_major
fill_sparse(op, h) ==
    IF op.dist.vec_nnz > DimMajor(op.dist)
    THEN [status |-> "error", op |-> op, heap |-> h]
    ELSE [status |-> "ok", op |-> [op EXCEPT !.known_filled = TRUE],
          heap |-> FyRun(op, h, 0, 0,
                         [x \in 0..(DimMajor(op.dist) - 1) |-> x],
                         [x \in 0..(op.dist.vec_nnz - 1) |-> 0])]

\* nnz(S)
nnz(op) ==
    LET saso == op.dist.major_axis = "Short"
        wide == op.dist.n_rows < op.dist.n_cols
    IN  IF saso /\ wide THEN op.dist.vec_nnz * op.dist.n_cols
        ELSE IF saso /\ ~wide THEN op.dist.vec_nnz * op.dist.n_rows
        ELSE IF wide /\ ~saso THEN op.dist.vec_nnz * op.dist.n_rows
        ELSE op.dist.vec_nnz * op.dist.n_cols

\* has_fixed_nnz_per_col(S)
has_fixed_nnz_per_col(op) ==
    IF op.dist.major_axis = "Short" THEN op.dist.n_rows < op.dist.n_cols
                                    ELSE op.dist.n_cols < op.dist.n_rows

\* The COOMatrix coo_view_of_skop builds
CooOf(op) ==
    [n_rows |-> op.dist.n_rows, n_cols |-> op.dist.n_cols, nnz |-> nnz(op),
     vals |-> op.vals, rows |-> op.rows, cols |-> op.cols]

\* coo_view_of_skop(S) on an operator that is not known to be filled
CooViewFilling(r) ==
    IF r.status = "ok"
    THEN /\ sp' = r.op
         /\ sheap' = r.heap
         /\ cv' = [status |-> "ok", fills |-> cv.fills + 1, made |-> cv.made + 1,
                   A |-> CooOf(r.op)]
    ELSE /\ cv' = [cv EXCEPT !.status = "error"]
         /\ UNCHANGED <<sp, sheap>>

\* auto A = coo_view_of_skop(S)
CooView ==
    /\ splife = "alive"
    /\ cv.made < MaxViews
    /\ cv.status # "error"
    /\ IF sp.known_filled
       THEN /\ cv' = [status |-> "ok", fills |-> cv.fills, made |-> cv.made + 1,
                      A |-> CooOf(sp)]
            /\ UNCHANGED <<sp, sheap>>
       ELSE CooViewFilling(fill_sparse(sp, sheap))
    /\ UNCHANGED <<splife, fy, St, Stt>>
    /\ UNCHANGED denseVars

\* fill_sparse(S), called by the caller
FillNowDone(r) ==
    /\ r.status = "ok"
    /\ sp' = r.op
    /\ sheap' = r.heap
    /\ cv' = [cv EXCEPT !.fills = cv.fills + 1]

FillNow ==
    /\ splife = "alive"
    /\ cv.fills < MaxFills
    /\ FillNowDone(fill_sparse(sp, sheap))
    /\ UNCHANGED <<splife, fy, St, Stt>>
    /\ UNCHANGED denseVars

\* fill_sparse(St), on the transposed view of the operator
FillViewDone(r) ==
    /\ r.status = "ok"
    /\ St' = [St EXCEPT !.op = r.op]
    /\ sheap' = r.heap
    /\ cv' = [cv EXCEPT !.fills = cv.fills + 1]

FillView ==
    /\ St.status = "ok"
    /\ cv.fills < MaxFills
    /\ FillViewDone(fill_sparse(St.op, sheap))
    /\ UNCHANGED <<splife, sp, fy, Stt>>
    /\ UNCHANGED denseVars

ViewNext ==
    \/ splife = "new" /\ \E dist \in SpDists, c \in SpCounters, k \in SpKeys :
            SpConstruct(dist, [counter |-> c, key |-> k])
    \/ splife = "new" /\ \E dist \in SpDists, c \in SpCounters, k \in SpKeys,
                            known_filled \in BOOLEAN :
            SpConstructUser(dist, [counter |-> c, key |-> k], known_filled)
    \/ splife = "new" /\ \E dist \in SpDists, c \in SpCounters, k \in SpKeys :
            SpConstructCopy(dist, [counter |-> c, key |-> k],
                            [counter |-> c + MaxCalls, key |-> k])
    \/ FillNow
    \/ CooView
    \/ Transpose
    \/ FillView
    \/ DestroyView
    \/ SpDestroy

SpecView == Init /\ [][ViewNext]_vars

----------------------------------------------------------------------------
(* Properties of the operator and of the apply routines (Spec, SpecPair) *)

Applied == call.routine \in {"lskge3", "rskge3"}

\* The matrix S: the buffer of the operator, read in S.layout; for an operator
\* without a buffer, what realize_full would put there.
DataOf(Sk, h) ==
    IF Sk.buff # Null THEN h[Sk.buff].data ELSE fill_buff(Sk.dist, Sk.seed_state).smat

SMatOf(Sk, h, r, c) ==
    DataOf(Sk, h)[MatIdx(Sk.layout,
                         IF Sk.layout = "ColMajor" THEN Sk.dist.n_rows ELSE Sk.dist.n_cols,
                         r, c)]

\* The shape of submat(S) in a call: that of op(submat(S)), transposed back
SubRows(c) ==
    IF c.routine = "lskge3"
    THEN (IF c.a.transS = "NoTrans" THEN c.a.d ELSE c.a.m)
    ELSE (IF c.a.transS = "NoTrans" THEN c.a.n ELSE c.a.d)
SubCols(c) ==
    IF c.routine = "lskge3"
    THEN (IF c.a.transS = "NoTrans" THEN c.a.m ELSE c.a.d)
    ELSE (IF c.a.transS = "NoTrans" THEN c.a.d ELSE c.a.n)

\* submat(S) is a block of S
Fits(Sk, c) ==
    /\ Sk.dist.n_rows >= SubRows(c) + c.a.i_os
    /\ Sk.dist.n_cols >= SubCols(c) + c.a.j_os

\* mat(B)[i, j] after the call
BAt(c, i, j) == c.B[MatIdx(c.a.layout, c.a.ldb, i, j)]

OpSAt(Sk, h, c, i, k) ==
    IF c.a.transS = "NoTrans"
    THEN SMatOf(Sk, h, c.a.i_os + i, c.a.j_os + k)
    ELSE SMatOf(Sk, h, c.a.i_os + k, c.a.j_os + i)

OpAAt(c, k, j) ==
    IF c.a.transA = "NoTrans" THEN AVal(c.a.akind, k, j) ELSE AVal(c.a.akind, j, k)

\* alpha * op(submat(S)) * op(mat(A)) + beta * mat(B_in), entry (i, j)
RefLeft(Sk, h, c, i, j) ==
    c.a.alpha * SumTo([k \in 0..(c.a.m - 1) |-> OpSAt(Sk, h, c, i, k) * OpAAt(c, k, j)], c.a.m)
    + c.a.beta * BVal(i, j)

LeftProduct(Sk, h, c) ==
    \A i \in 0..(c.a.d - 1), j \in 0..(c.a.n - 1) : BAt(c, i, j) = RefLeft(Sk, h, c, i, j)

\* C3 - LSKGE3 semantics: every call of lskge3 that passes the routine's
\* checks leaves mat(B) = alpha * op(submat(S)) * op(mat(A)) + beta * mat(B_in),
\* submat(S) being the block of S anchored at (i_os, j_os).
C3_LskgeSemantics ==
    (call.routine = "lskge3" /\ call.status = "ok") =>
        (Fits(S, call) /\ LeftProduct(S, heap, call))

\* (the equation of C3 on the calls whose block lies inside S)
LskgeSemanticsInside ==
    (call.routine = "lskge3" /\ call.status = "ok" /\ Fits(S, call)) =>
        LeftProduct(S, heap, call)

\* The call sketches the identity: A = I_m, alpha = 1, beta = 0, no transposes
SketchesEye(c) ==
    /\ c.routine = "lskge3" /\ c.status = "ok"
    /\ c.a.akind = "eye" /\ c.a.n = c.a.m /\ c.a.alpha = 1 /\ c.a.beta = 0
    /\ c.a.transS = "NoTrans" /\ c.a.transA = "NoTrans"

\* C4 - Apply-to-identity: with A = I_m, alpha = 1, beta = 0 and no
\* transposes, lskge3 writes into B, in the requested layout, the d x m block
\* of S anchored at (i_os, j_os), whether or not the layout is that of S.
C4_ApplyToIdentity ==
    (SketchesEye(call) /\ Fits(S, call)) =>
        \A i \in 0..(call.a.d - 1), j \in 0..(call.a.m - 1) :
            BAt(call, i, j) = SMatOf(S, heap, call.a.i_os + i, call.a.j_os + j)

\* A proper 2 x 2 block at (1, 1) of a realized 3 x 3 operator was written in
\* the layout opposite to that of S.
C4_Witness ==
    /\ SketchesEye(call) /\ Fits(S, call)
    /\ S.buff = "own" /\ call.a.layout # S.layout
    /\ call.a.d = 2 /\ call.a.m = 2 /\ call.a.i_os = 1 /\ call.a.j_os = 1
    /\ S.dist.n_rows = 3 /\ S.dist.n_cols = 3

\* The full operator (offsets 0, block = all of S) was written in the layout of S.
C4_WitnessFull ==
    /\ SketchesEye(call) /\ Fits(S, call)
    /\ call.a.layout = S.layout
    /\ call.a.d = S.dist.n_rows /\ call.a.m = S.dist.n_cols
    /\ call.a.i_os = 0 /\ call.a.j_os = 0

\* Two calls with the same logical arguments
SameLogical(a, b) ==
    /\ a.transS = b.transS /\ a.transA = b.transA
    /\ a.d = b.d /\ a.n = b.n /\ a.m = b.m
    /\ a.alpha = b.alpha /\ a.beta = b.beta /\ a.akind = b.akind
    /\ a.i_os = b.i_os /\ a.j_os = b.j_os

\* C5 - Layout swap: of two successive calls of lskge3 on the same operator
\* with the same logical arguments and beta = 0, one with the layout of S and
\* one with the other layout, both leave the same d x n matrix in B.
C5_LayoutSwap ==
    [][ ( /\ call.routine = "lskge3" /\ call'.routine = "lskge3"
          /\ call.status = "ok" /\ call'.status = "ok"
          /\ S'.buff = S.buff
          /\ SameLogical(call.a, call'.a)
          /\ call.a.beta = 0
          /\ call.a.layout = S.layout /\ call'.a.layout # S.layout )
        => \A i \in 0..(call.a.d - 1), j \in 0..(call.a.n - 1) :
               BAt(call', i, j) = BAt(call, i, j) ]_vars

\* (C5 on the calls whose block lies inside S)
LayoutSwapInside ==
    [][ ( /\ call.routine = "lskge3" /\ call'.routine = "lskge3"
          /\ call.status = "ok" /\ call'.status = "ok"
          /\ S'.buff = S.buff
          /\ SameLogical(call.a, call'.a)
          /\ call.a.beta = 0
          /\ call.a.layout = S.layout /\ call'.a.layout # S.layout
          /\ Fits(S, call) )
        => \A i \in 0..(call.a.d - 1), j \in 0..(call.a.n - 1) :
               BAt(call', i, j) = BAt(call, i, j) ]_vars

\* C6 - A call on an operator whose buffer is null leaves the same B as the
\* same call, with the same arguments, on the operator realized by realize_full.
C6_NullEqualsRealized ==
    [][ ( /\ Applied /\ call'.routine = call.routine
          /\ call'.a = call.a
          /\ call.wasNull /\ ~call'.wasNull /\ S.buff = "own" )
        => call'.B = call.B ]_vars

\* (C6 on the calls whose block lies inside S)
NullEqualsRealizedInside ==
    [][ ( /\ Applied /\ call'.routine = call.routine
          /\ call'.a = call.a
          /\ call.wasNull /\ ~call'.wasNull /\ S.buff = "own"
          /\ Fits(S, call) )
        => call'.B = call.B ]_vars

\* C7 - A call of lskge3 or rskge3 on an operator whose buffer is null leaves
\* the operator as it was: buff still null, next_state unchanged.
C7_NullApplyLeavesOperator ==
    [][ (call = NoCall /\ Applied' /\ S.buff = Null)
        => (S'.buff = Null /\ S'.next_state = S.next_state) ]_vars

\* C8 (as claimed) - On a null buffer the temporary has exactly
\* rows_subS x cols_subS entries.
C8_MinimalTile ==
    (Applied /\ call.wasNull) => call.tmp.size = SubRows(call) * SubCols(call)

\* C8 (amended) - On a null buffer lskge3 and rskge3 allocate one temporary
\* of n_rows x n_cols entries, the full operator, whatever the block the call
\* uses; it is freed once when the call ends, and no buffer is attached to S.
C8_FullTemporary ==
    [][ (call = NoCall /\ Applied' /\ S.buff = Null)
        => /\ call'.tmp.size = S.dist.n_rows * S.dist.n_cols
           /\ call'.tmp.state = "freed" /\ call'.tmp.frees = 1
           /\ S'.buff = Null
           /\ heap' = heap ]_vars

\* A call on a null buffer used a proper block of a 3 x 3 operator
C8_Witness ==
    /\ Applied /\ call.wasNull /\ call.status = "ok" /\ S.buff = Null
    /\ S.dist.n_rows = 3 /\ S.dist.n_cols = 3
    /\ SubRows(call) = 2 /\ SubCols(call) = 1
    /\ call.a.i_os = 1
    /\ Fits(S, call)

\* The counters the fill of the full operator passes to the generator
FillCounters(Sk) == fill_buff(Sk.dist, Sk.seed_state).ctrs

\* C9 - After realize_full(S), next_state succeeds all entries of S in the
\* sample stream: its counter is greater than every counter the fill passed
\* to the generator, and its key is the key of the seed.
C9_NextStateSucceedsStream ==
    (life = "alive" /\ S.buff = "own") =>
        /\ S.next_state.key = S.seed_state.key
        /\ \A x \in DOMAIN FillCounters(S) : S.next_state.counter > FillCounters(S)[x]

\* C10 - A call of lskge3 or rskge3 that reaches GEMM has a block that lies
\* inside S, and every element of S that GEMM addresses lies inside the buffer.
C10_OffsetsChecked ==
    (Applied /\ call.status = "ok") => (Fits(S, call) /\ ~call.oob)

\* (C10 for rskge3, whose checks include the offsets)
RskgeOffsetsChecked ==
    (call.routine = "rskge3" /\ call.status = "ok") => (Fits(S, call) /\ ~call.oob)

\* The checks of the call other than the one on lda
ChecksOf(c) ==
    IF c.routine = "lskge3" THEN Lskge3Checks(S, heap, c.a) ELSE Rskge3Checks(S, heap, c.a)

\* A call is rejected because of lda when lda is below need and accepted when
\* lda reaches need and the checks on S and ldb pass
LdaCheckIs(c, need) ==
    /\ c.a.lda < need => c.status = "error"
    /\ (c.a.lda >= need /\ ChecksOf(c).chkS /\ ChecksOf(c).chkB) => c.status = "ok"

\* C11 (as claimed) - The lda check of lskge3 and rskge3 is lda >= rows(op(A))
\* for a ColMajor target and lda >= cols(op(A)) for a RowMajor target, op(A)
\* being m x n, for either transA.
C11_LdaOfOpA ==
    Applied => LdaCheckIs(call, IF call.a.layout = "ColMajor" THEN call.a.m ELSE call.a.n)

\* C11 (amended) - The lda check of lskge3 and rskge3 is lda >= rows(mat(A))
\* for a ColMajor target and lda >= cols(mat(A)) for a RowMajor target, mat(A)
\* being m x n when transA = NoTrans and n x m when transA = Trans.
C11_LdaOfMatA ==
    Applied =>
        LdaCheckIs(call, IF (call.a.layout = "ColMajor") = (call.a.transA = "NoTrans")
                         THEN call.a.m ELSE call.a.n)

\* A ColMajor call with transA = Trans, m = 1, n = 2, lda = 1 is rejected
\* because of lda alone: op(A) has one row, mat(A) has two.
C11_Witness ==
    /\ Applied /\ call.status = "error"
    /\ call.a.layout = "ColMajor" /\ call.a.transA = "Trans"
    /\ call.a.m = 1 /\ call.a.n = 2 /\ call.a.lda = 1
    /\ ChecksOf(call).chkS /\ ChecksOf(call).chkB

\* B as the caller passed it in
BIn(c) ==
    IF c.routine = "lskge3"
    THEN MatBuf(c.a.layout, c.a.ldb, c.a.d, c.a.n, "B")
    ELSE MatBuf(c.a.layout, c.a.ldb, c.a.m, c.a.d, "B")

\* C12 - A call of lskge3 or rskge3 whose precondition check fails leaves no
\* partial state: GEMM is not called, B is unchanged and S (buff and
\* next_state) is exactly as it was before the call, also when the buffer of
\* S is null on entry.
C12_FailureLeavesNoState ==
    [][ (call = NoCall /\ Applied' /\ call'.status = "error")
        => /\ call'.gemms = 0
           /\ call'.B = BIn(call')
           /\ S'.buff = S.buff
           /\ S'.next_state = S.next_state ]_vars

\* (C12 for the calls that leave next_state alone: rskge3, and lskge3 on an
\* operator with a buffer)
FailureLeavesNoStateElsewhere ==
    [][ (call = NoCall /\ Applied' /\ call'.status = "error"
         /\ (call'.routine = "rskge3" \/ S.buff # Null))
        => /\ call'.gemms = 0
           /\ call'.B = BIn(call')
           /\ S' = S /\ heap' = heap ]_vars

\* The arguments of the lskge3 call that computes the transposed problem
\* B^T = alpha * op(submat(S))^T * op(A)^T + beta * B^T on the same buffers:
\* read in the opposite layout, the buffers of A and B hold the transposes
TransposedProblem(a) ==
    [a EXCEPT !.layout = IF a.layout = "ColMajor" THEN "RowMajor" ELSE "ColMajor",
              !.transS = Flip(a.transS),
              !.n = a.m, !.m = a.n,
              !.akind = IF a.akind = "gen" THEN "gent" ELSE a.akind,
              !.bkind = "Bt"]

\* C21: for arguments both routines accept, rskge3(layout, transA, transS,
\* m, d, n, alpha, A, lda, S, i_os, j_os, beta, B, ldb) writes the same B
\* buffer as lskge3(opposite layout, flipped transS, transA, d, m, n, alpha,
\* S, i_os, j_os, A, lda, beta, B, ldb).
C21_RightIsTransposedLeft ==
    [][ ( /\ call' # call /\ call'.routine = "rskge3" /\ call'.status = "ok"
          /\ Lskge3Checks(S, heap, TransposedProblem(call'.a)).ok )
        => \A g \in Garbage :
              Lskge3Run(S, heap, TransposedProblem(call'.a), g).B = call'.B ]_vars

\* rskge3 has run on a 2 x 1 submatrix at an offset of an operator whose
\* layout opposes the call's, on a matrix A that is not symmetric, with
\* beta = 1; lskge3 accepts the transposed problem
C21_Witness ==
    /\ call.routine = "rskge3" /\ call.status = "ok"
    /\ call.a.layout # S.layout /\ call.a.akind = "gen" /\ call.a.beta = 1
    /\ call.a.m = 2 /\ call.a.n = 2 /\ call.a.d = 1 /\ call.a.lda = 2
    /\ call.a.i_os + call.a.j_os > 0
    /\ Lskge3Checks(S, heap, TransposedProblem(call.a)).ok

\* C22: an operator that exists has positive dimensions, a sparse one a
\* positive vec_nnz, and a dense BlackBox one a buffer: every constructor of
\* DenseSkOp and of SparseSkOp fails on n_rows <= 0, n_cols <= 0,
\* vec_nnz <= 0, and on BlackBox with a null buffer.
C22_OperatorsAreValid ==
    /\ life = "alive" =>
          /\ S.dist.n_rows > 0 /\ S.dist.n_cols > 0
          /\ S.dist.family = "BlackBox" => S.buff # Null
    /\ splife = "alive" =>
          sp.dist.n_rows > 0 /\ sp.dist.n_cols > 0 /\ sp.dist.vec_nnz > 0

\* A constructor of DenseSkOp and a constructor of SparseSkOp have failed
C22_Witness == life = "failed" /\ splife = "failed"

\* C27: buffers are owned safely over construction, realize_full, lskge3,
\* rskge3 and destruction: no buffer is ever freed twice; an apply on an
\* operator without a buffer frees its temporary exactly once by the time it
\* ends, also when a check on the dimensions fails, and an apply on an operator
\* with a buffer has no temporary; an apply, and the destruction of the shallow
\* copy at its end, frees and changes no buffer of the caller's operator.
C27_BuffersOwnedSafely ==
    [][ /\ \A c \in Cells : heap'[c].frees <= 1
        /\ (call' # call /\ Applied') =>
              /\ heap' = heap
              /\ call'.tmp.frees = (IF S.buff = Null THEN 1 ELSE 0)
              /\ call'.tmp.state = (IF S.buff = Null THEN "freed" ELSE "none")
      ]_vars

\* An apply on an operator without a buffer failed a check on the dimensions
\* and its temporary was freed once
C27_Witness ==
    /\ Applied
    /\ call.wasNull
    /\ call.status = "error"
    /\ call.tmp.frees = 1

\* An operator with a buffer of its own was applied and then destroyed: the
\* buffer was freed once
C27_WitnessDestroyed ==
    /\ life = "destroyed"
    /\ heap["own"].frees = 1

\* Entry x of the random stream of operator Sk: the generator's blocks from
\* seed_state on, W entries each
StreamAt(Sk, x) ==
    Generate(IF Sk.dist.family = "Gaussian" THEN "boxmul" ELSE "uneg11",
             Sk.seed_state.counter + (x \div W), Sk.seed_state.key)[x % W]

\* Read in S.layout, consecutive stream entries run along a row of S (the
\* axis of length n_cols), or along a column of S (the axis of length n_rows)
AlongRows ==
    \A i \in 0..(S.dist.n_rows - 1), j \in 0..(S.dist.n_cols - 1) :
        SMatOf(S, heap, i, j) = StreamAt(S, i * S.dist.n_cols + j)

AlongCols ==
    \A i \in 0..(S.dist.n_rows - 1), j \in 0..(S.dist.n_cols - 1) :
        SMatOf(S, heap, i, j) = StreamAt(S, j * S.dist.n_rows + i)

\* The length of the major axis: the longer dimension for Long, the shorter
\* for Short
MajorLen(D) ==
    IF (D.major_axis = "Long") = (D.n_rows < D.n_cols) THEN D.n_cols ELSE D.n_rows

\* The buffer of S is the one realize_full allocated and filled
RealizedFull == life = "alive" /\ S.buff = "own" /\ heap["own"].state = "live"

C20_WitnessLong ==
    /\ RealizedFull
    /\ S.dist.n_rows = 3 /\ S.dist.n_cols = 2 /\ S.dist.major_axis = "Long"
    /\ S.layout = "ColMajor"
    /\ SMatOf(S, heap, 1, 1) = StreamAt(S, 4) /\ SMatOf(S, heap, 2, 1) = StreamAt(S, 5)

----------------------------------------------------------------------------
(* Properties of the sparse operator (SpecSparse) *)

Filled == splife = "alive" /\ fy.pc = "done"

MajorData == sheap[IdxsMajor(sp)].data

MinorData == sheap[IdxsMinor(sp)].data

ValsData == sheap[sp.vals].data

\* The positions of slice i in the three arrays
SliceAt(i) == { i * sp.dist.vec_nnz + a : a \in 0..(sp.dist.vec_nnz - 1) }

\* C13: after fill_sparse, for every minor-axis slice i the vec_nnz major-axis
\* indices stored at the positions [i * vec_nnz, i * vec_nnz + vec_nnz) are
\* pairwise distinct and lie in [0, dim_major), and the minor-axis index stored
\* at each of these positions is i, whatever values the generator returned.
C13_SliceIndicesDistinct ==
    Filled =>
        \A i \in 0..(DimMinor(sp.dist) - 1) :
            /\ \A p, q \in SliceAt(i) : p # q => MajorData[p] # MajorData[q]
            /\ \A p \in SliceAt(i) :
                  /\ MajorData[p] \in 0..(DimMajor(sp.dist) - 1)
                  /\ MinorData[p] = i

\* A filled operator with several slices of several indices each, two slices
\* of which drew different indices
C13_Witness ==
    /\ Filled
    /\ sp.dist.vec_nnz = 2 /\ DimMajor(sp.dist) = 3 /\ DimMinor(sp.dist) = 2
    /\ MajorData[0] = 2 /\ MajorData[1] = 0 /\ MajorData[2] = 1 /\ MajorData[3] = 2

RowsData == sheap[sp.rows].data

ColsData == sheap[sp.cols].data

TallLaso == Filled /\ sp.dist.major_axis = "Long" /\ sp.dist.n_rows > sp.dist.n_cols

\* The column indices stored for row r, and the row indices stored for column c
ColsOfRow(r) == { ColsData[p] : p \in { q \in DOMAIN RowsData : RowsData[q] = r } }

RowsOfCol(c) == { RowsData[p] : p \in { q \in DOMAIN ColsData : ColsData[q] = c } }

\* C14: after fill_sparse on a LASO with more rows than columns, every row
\* has exactly vec_nnz distinct column indices.
C14_RowsOfTallLaso ==
    TallLaso =>
        \A r \in 0..(sp.dist.n_rows - 1) : Cardinality(ColsOfRow(r)) = sp.dist.vec_nnz

\* C14 as the code has it: after fill_sparse on a LASO with more rows than
\* columns, every column has exactly vec_nnz entries, with vec_nnz distinct
\* row indices in [0, n_rows).
C14_ColsOfTallLaso ==
    TallLaso =>
        \A c \in 0..(sp.dist.n_cols - 1) :
            /\ Cardinality({ q \in DOMAIN ColsData : ColsData[q] = c }) = sp.dist.vec_nnz
            /\ Cardinality(RowsOfCol(c)) = sp.dist.vec_nnz
            /\ RowsOfCol(c) \subseteq 0..(sp.dist.n_rows - 1)

\* A filled 3 x 2 LASO with vec_nnz = n_cols = 2 in which row 0 has two
\* entries and row 1 and row 2 one each
C14_Witness ==
    /\ TallLaso
    /\ sp.dist.n_rows = 3 /\ sp.dist.n_cols = 2 /\ sp.dist.vec_nnz = 2
    /\ ColsOfRow(0) = {0, 1} /\ ColsOfRow(1) = {0} /\ ColsOfRow(2) = {1}

RECURSIVE SliceRun(_, _, _, _, _)
\* repeated_fisher_yates with dim_minor = 1: the indices and signs of its one
\* slice, rvs the values the generator returns for the vec_nnz counters from
\* the state it is started on
SliceRun(vec_work, j, vec_nnz, dim_major, rvs) ==
    IF j = vec_nnz THEN <<>>
    ELSE LET s == FyInner(vec_work, j, rvs[j + 1].r0, dim_major)
         IN  <<[idx |-> s.swap, val |-> Sign(rvs[j + 1].r1)]>>
             \o SliceRun(s.vec_work, j + 1, vec_nnz, dim_major, rvs)

SliceAlone(vec_nnz, dim_major, rvs) ==
    SliceRun([x \in 0..(dim_major - 1) |-> x], 0, vec_nnz, dim_major, rvs)

\* Slice fy.ls has just been completed; fy.log holds its generator calls
SliceComplete == fy.pc \in {"run", "done"} /\ Len(fy.log) = sp.dist.vec_nnz

\* C15: the indices and signs of slice i are a function of (counter + i * k,
\* key, k, n) only: the generator is called on the counters counter + i * k + j
\* with the seed's key, and what slice i stores is what a run with
\* dim_minor = 1 stores when the generator returns it the same values.
C15_SliceIndependence ==
    SliceComplete =>
        LET k == sp.dist.vec_nnz
            alone == SliceAlone(k, DimMajor(sp.dist), fy.log)
        IN  \A j \in 0..(k - 1) :
                /\ fy.log[j + 1].ctr = sp.seed_state.counter + fy.ls * k + j
                /\ fy.log[j + 1].key = sp.seed_state.key
                /\ MajorData[fy.ls * k + j] = alone[j + 1].idx
                /\ ValsData[fy.ls * k + j] = alone[j + 1].val

\* The second slice of two indices is complete, after a first slice that
\* permuted vec_work (its first index is not 0)
C15_Witness ==
    /\ SliceComplete
    /\ fy.ls = 1 /\ sp.dist.vec_nnz = 2 /\ DimMajor(sp.dist) = 3
    /\ MajorData[0] = 2 /\ MajorData[1] = 1
    /\ MajorData[2] = 0 /\ MajorData[3] = 2

\* C16: transpose(transpose(S)) has the n_rows, n_cols, vec_nnz, major_axis,
\* seed_state and next_state of S, and its rows, cols and vals are the arrays
\* of S in the same roles, none of them freed.
C16_TransposeRoundTrip ==
    (splife = "alive" /\ Stt.status = "ok") =>
        /\ Stt.op.dist = sp.dist
        /\ Stt.op.seed_state = sp.seed_state
        /\ Stt.op.next_state = sp.next_state
        /\ Stt.op.rows = sp.rows /\ Stt.op.cols = sp.cols /\ Stt.op.vals = sp.vals
        /\ \A c \in {Stt.op.rows, Stt.op.cols, Stt.op.vals} : sheap[c].state = "live"

\* Both transposes of a filled operator that is not square are at hand, and
\* the first one has the dimensions and the index arrays swapped
C16_Witness ==
    /\ splife = "alive" /\ Stt.status = "ok" /\ St.status = "ok"
    /\ sp.dist.n_rows = 2 /\ sp.dist.n_cols = 3
    /\ St.op.dist.n_rows = 3 /\ St.op.dist.n_cols = 2
    /\ St.op.rows = sp.cols /\ St.op.cols = sp.rows

\* C17: transpose(S) fails unless S.known_filled; otherwise it returns a view
\* with n_rows and n_cols swapped, rows and cols swapped, the same vals,
\* vec_nnz and major_axis, known_filled = true and own_memory = false; and
\* neither the creation nor the destruction of a view frees or changes the
\* arrays of S.
C17_TransposeIsAlias ==
    [][ /\ (St'.status # St.status \/ Stt'.status # Stt.status) => sheap' = sheap
        /\ (St.status # "ok" /\ St'.status = "ok") =>
              /\ sp.known_filled
              /\ St'.op.dist.n_rows = sp.dist.n_cols /\ St'.op.dist.n_cols = sp.dist.n_rows
              /\ St'.op.dist.vec_nnz = sp.dist.vec_nnz
              /\ St'.op.dist.major_axis = sp.dist.major_axis
              /\ St'.op.rows = sp.cols /\ St'.op.cols = sp.rows /\ St'.op.vals = sp.vals
              /\ St'.op.known_filled /\ ~St'.op.own_memory
        /\ (St.status = "none" /\ St'.status # "none") => (sp.known_filled \/ St'.status = "error")
      ]_vars

\* A view of a filled operator was created and destroyed again (the transpose
\* of it is still at hand), and the arrays of the operator are alive
C17_Witness ==
    /\ splife = "alive" /\ St.status = "none" /\ Stt.status = "ok"
    /\ sp.dist.n_rows = 3 /\ sp.dist.n_cols = 1
    /\ \A c \in {sp.rows, sp.cols, sp.vals} : sheap[c].state = "live"

\* transpose was called on an operator that fill_sparse has not run on
C17_WitnessUnfilled == splife = "alive" /\ ~sp.known_filled /\ St.status = "error"

\* The entries of rows, cols and vals that hold an index or a value
Written == { <<c, x>> \in {"rows", "cols", "vals"} \X (0..(MaxSp * MaxSp)) :
               x \in DOMAIN sheap[c].data /\ sheap[c].data[x] # SpUnset }

\* fill_sparse has not run or has failed, and nothing was stored
Rejected == fy.pc \in {"idle", "error"} /\ Written = {} /\ ~sp.known_filled

\* C18: a distribution with vec_nnz > min(n_rows, n_cols) is rejected for
\* both values of major_axis: the constructor or at the latest fill_sparse
\* fails, and no index or value is written.
C18_RejectsAboveShortAxis ==
    (splife = "alive" /\ sp.dist.vec_nnz > MinOf(sp.dist.n_rows, sp.dist.n_cols)) => Rejected

\* C18 as the code has it: fill_sparse fails, before anything is written, when
\* vec_nnz exceeds the length of the major axis: min(n_rows, n_cols) for
\* Short, max(n_rows, n_cols) for Long.  (The constructor accepts it.)
C18_RejectsAboveMajorAxis ==
    LET major_len == IF sp.dist.major_axis = "Short"
                     THEN MinOf(sp.dist.n_rows, sp.dist.n_cols)
                     ELSE MaxOf(sp.dist.n_rows, sp.dist.n_cols)
    IN  /\ (splife = "alive" /\ sp.dist.vec_nnz > major_len) => Rejected
        /\ (splife = "alive" /\ sp.dist.vec_nnz <= major_len) => fy.pc # "error"

\* fill_sparse has failed on a constructed LASO with vec_nnz above both
\* dimensions, and nothing was stored
C18_Witness ==
    /\ splife = "alive" /\ fy.pc = "error" /\ Written = {}
    /\ sp.dist.major_axis = "Long"
    /\ sp.dist.n_rows = 1 /\ sp.dist.n_cols = 2 /\ sp.dist.vec_nnz = 3

\* fill_sparse has filled a LASO with vec_nnz above its shorter dimension
C18_WitnessAccepted ==
    /\ Filled /\ sp.dist.major_axis = "Long"
    /\ sp.dist.n_rows = 1 /\ sp.dist.n_cols = 3 /\ sp.dist.vec_nnz = 2
    /\ Written # {}

\* Every counter fill_sparse has passed to the generator lies before
\* next_state, and once filled next_state is at least dim_minor * vec_nnz
\* past the seed
NextStateCoversFill ==
    /\ Filled => sp.next_state.counter >=
                    sp.seed_state.counter + DimMinor(sp.dist) * sp.dist.vec_nnz
    /\ fy.pc \in {"run", "done"} =>
          \A x \in 1..Len(fy.log) : fy.log[x].ctr < sp.next_state.counter

\* C19: next_state.counter is at least seed_state.counter +
\* dim_minor * vec_nnz, the number of generator calls of fill_sparse, so that
\* no (counter, key) pair fill_sparse consumes is used again from next_state
\* on; for both values of major_axis and wide, tall and square operators.
C19_NextStateAfterFill == splife = "alive" => NextStateCoversFill

\* The same for square operators and for major_axis = Long
NextStateAfterFillLong ==
    (splife = "alive" /\ (sp.dist.n_rows = sp.dist.n_cols \/ sp.dist.major_axis = "Long"))
        => NextStateCoversFill

\* C23: at the start of every slice and after the last one vec_work is the
\* identity, vec_work[j] = j for 0 <= j < dim_major, whatever the generator
\* returned (pivots with ell = j and repeated pivot positions included).
C23_UndoRestoresIdentity ==
    (fy.pc \in {"run", "done"} /\ fy.j = 0) =>
        /\ DOMAIN fy.vec_work = 0..(DimMajor(sp.dist) - 1)
        /\ \A x \in DOMAIN fy.vec_work : fy.vec_work[x] = x

\* A slice of three indices is complete whose three steps all picked
\* position 2 as the pivot, the last of them with ell = j
C23_Witness ==
    /\ fy.pc \in {"run", "done"} /\ fy.j = 0 /\ fy.i >= 1
    /\ sp.dist.vec_nnz = 3
    /\ fy.pivots[0] = 2 /\ fy.pivots[1] = 2 /\ fy.pivots[2] = 2

----------------------------------------------------------------------------
(* Properties of the fill (SpecFill) *)

\* The rows of the smallest full-width parent that contains the tile of p
FullRowsFor(p) == ((p.ptr + (p.n_srows - 1) * p.n_cols + p.n_scols - 1) \div p.n_cols) + 1

\* The flat buffer of a full fill from the same seed: ptr = 0, n_scols = n_cols
FullFill(p) ==
    FillRsubmatOmp(FillParams(p.n_cols, FullRowsFor(p), p.n_cols, 0, p.seed, p.op)).smat

\* C1 - Submatrix equals slice: when fill_rsubmat_omp has returned, entry
\* (r, c) of the tile it wrote equals element ptr + r*n_cols + c of the flat
\* buffer of a full fill (ptr = 0, n_scols = n_cols) from the same seed.
C1_SubmatEqualsSlice ==
    fpc = "done" =>
        LET full == FullFill(fp)
        IN  \A r \in 0..(fp.n_srows - 1), c \in 0..(fp.n_scols - 1) :
                smat[r * fp.n_scols + c] = full[fp.ptr + r * fp.n_cols + c]

\* A proper tile (offset start, narrower than the parent, several rows) with a
\* row that spans three generator blocks has been filled.
C1_Witness ==
    /\ fpc = "done"
    /\ fp.ptr > 0 /\ fp.n_scols < fp.n_cols /\ fp.n_srows >= 2
    /\ \E r \in DOMAIN glog : Len(glog[r].ctrs) >= 3

\* C2 - Thread invariance: whatever the number of workers that took rows and
\* whatever rows each took, the buffer left by the parallel region equals the
\* buffer a single thread running rows 0, 1, ... in order leaves.
C2_ThreadInvariance ==
    fpc = "done" => smat = FillRsubmatOmp(fp).smat

\* Two workers shared three rows: one ran rows 0 and 2, the other started,
\* with prev = 0, at row 1, whose first block is not block 0.
C2_Witness ==
    /\ fpc = "done"
    /\ fp.n_srows = 3
    /\ glog[0].worker # glog[1].worker /\ glog[0].worker = glog[2].worker
    /\ glog[1].r0 > 0

\* C24: for every row r the generator is invoked exactly once for each block
\* b = r0, r0 + 1, ..., r1 (r0 = floor(i0 / W), r1 = floor(i1 / W)), in this
\* order, the worker's counter at the invocation for block b being the seed
\* counter advanced by b whichever rows the worker ran before; and the first
\* increment r0 - prev of a row is never negative.
C24_OneGenerateCallPerBlock ==
    \A r \in DOMAIN glog :
        LET i0 == fp.ptr + r * fp.n_cols
            i1 == fp.ptr + r * fp.n_cols + fp.n_scols - 1
            r0 == i0 \div W
            r1 == i1 \div W
        IN  /\ glog[r].ctrs = [b \in 1..(r1 - r0 + 1) |-> fp.seed.counter + r0 + (b - 1)]
            /\ glog[r].inc0 >= 0

\* One worker ran row 0, two blocks, and then row 2, which spans three
\* blocks and starts in a later block than row 0 ended in; another worker ran
\* row 1
C24_Witness ==
    /\ fpc = "done" /\ fp.n_srows = 3 /\ fp.seed.counter > 0
    /\ glog[0].worker = glog[2].worker /\ glog[1].worker # glog[0].worker
    /\ Len(glog[0].ctrs) = 2 /\ Len(glog[2].ctrs) = 3 /\ glog[2].inc0 > 0

\* C28: a row of fill_rsubmat_omp writes n_scols entries, smat[row * n_scols],
\* ..., smat[row * n_scols + n_scols - 1], one after the other: at every point
\* of the parallel region each index of a row that has run was written exactly
\* once and no other index was written, whichever worker ran which row and
\* wherever the row starts and ends within a generator block.
C28_EachIndexWrittenOnce ==
    /\ \A r \in DOMAIN glog : glog[r].writes = fp.n_scols
    /\ \A x \in DOMAIN wrote :
          wrote[x] = (IF (x \div fp.n_scols) \in rowsDone THEN 1 ELSE 0)
    /\ fpc = "done" => \A x \in 0..(fp.n_srows * fp.n_scols - 1) : wrote[x] = 1

\* Two workers filled three rows that start inside a generator block, one
\* of them spanning two blocks or more
C28_Witness ==
    /\ fpc = "done"
    /\ fp.n_srows = 3
    /\ fp.ptr % W # 0
    /\ glog[0].worker # glog[1].worker
    /\ \E r \in DOMAIN glog : glog[r].r1 > glog[r].r0

----------------------------------------------------------------------------
(* Properties of lsksp3 and rsksp3 (SpecSksp) *)

SkspApplied(c) == c.routine \in {"lsksp3", "rsksp3"}

\* C25: a call of lsksp3 or rsksp3 ends after at most one level of recursion
\* and at most one SpMM dispatch: on an operator without a buffer it recurses
\* exactly once, on a temporary with a buffer and the offsets (0, 0); on an
\* operator with a buffer it does not recurse; the dispatch happens exactly
\* when every check on A, S and ldb passed, to right_spmm for lsksp3 and to
\* left_spmm for rsksp3, with opS flipped exactly when the layout of the
\* operator dispatched differs from the layout asked for.
C25_OneRecursionOneDispatch ==
    [][ (call' # call /\ SkspApplied(call')) =>
          /\ call'.levels <= 1
          /\ call'.dispatches <= 1
          /\ (S.buff = Null) =>
                /\ call'.levels = 1
                /\ call'.buff # Null
                /\ call'.ro_s = 0 /\ call'.co_s = 0
                /\ call'.tmp.frees = 1
          /\ (S.buff # Null) =>
                /\ call'.levels = 0
                /\ call'.buff = S.buff
                /\ call'.ro_s = call'.a.ro_s /\ call'.co_s = call'.a.co_s
                /\ call'.tmp.frees = 0
          /\ (call'.dispatches = 1) <=> SkspChecksOk(call'.checks)
          /\ (call'.dispatches = 1) =>
                /\ call'.primitive =
                     (IF call'.routine = "lsksp3" THEN "right_spmm" ELSE "left_spmm")
                /\ (call'.opS # call'.a.opS) <=> (call'.Slayout # call'.a.layout)
          /\ (call'.dispatches = 0) => call'.primitive = "none" /\ call'.status = "error"
      ]_vars

\* lsksp3 on an operator without a buffer: one recursion, then one dispatch
\* with opS flipped
C25_Witness ==
    /\ call.routine = "lsksp3"
    /\ call.levels = 1
    /\ call.dispatches = 1
    /\ call.opS # call.a.opS

\* rsksp3 on an operator without a buffer: a check on A fails inside the
\* recursion and nothing is dispatched
C25_WitnessFailed ==
    /\ call.routine = "rsksp3"
    /\ call.levels = 1
    /\ ~call.checks.A_rows
    /\ call.dispatches = 0

----------------------------------------------------------------------------
(* Properties of the views of a SparseSkOp (SpecView) *)

\* The step is a call of coo_view_of_skop that returned a view
CooViewMade == cv'.made = cv.made + 1

\* The arrays as fill_sparse leaves them, started from arrays nothing was stored in
SampleOf(op) == fill_sparse(op, UserArrays(op.dist)).heap

\* C26: coo_view_of_skop(S) yields a view of the sample of S: when fill_sparse
\* never ran on the arrays of S, whichever constructor made S, the call runs it
\* exactly once; when it ran before, the call does not run it again; afterwards
\* known_filled is true and the arrays hold the sample of (dist, seed_state).
C26_CooViewFillsOnce ==
    [][ CooViewMade =>
          /\ cv'.fills = (IF cv.fills = 0 THEN 1 ELSE cv.fills)
          /\ sp'.known_filled
          /\ sheap' = SampleOf(sp)
      ]_vars

\* What does hold: an operator whose known_filled is false is filled exactly
\* once by the call, and its arrays then hold the sample
CooViewFillsWhenNotKnownFilled ==
    [][ (CooViewMade /\ ~sp.known_filled) =>
          /\ cv'.fills = cv.fills + 1
          /\ sp'.known_filled
          /\ sheap' = SampleOf(sp)
      ]_vars

\* C29: filling commutes with transposition: when the arrays hold the sample
\* fill_sparse(S) left, fill_sparse on transpose(S) leaves rows, cols and vals
\* as they are, for wide, tall and square operators of either major axis.
C29_FillCommutesWithTranspose ==
    [][ (FillView /\ sheap = SampleOf(sp)) => sheap' = sheap ]_vars

\* What does hold: the same for the operators that are not square
FillCommutesOffSquare ==
    [][ (FillView /\ sheap = SampleOf(sp) /\ sp.dist.n_rows # sp.dist.n_cols)
            => sheap' = sheap ]_vars

\* For a square operator the fill of the view stores the row indices of the
\* sample in cols and its column indices in rows
FillOfSquareViewSwaps ==
    [][ (FillView /\ sheap = SampleOf(sp) /\ sp.dist.n_rows = sp.dist.n_cols)
            => /\ sheap'["rows"] = sheap["cols"]
               /\ sheap'["cols"] = sheap["rows"]
               /\ sheap'["vals"] = sheap["vals"] ]_vars

\* The arrays hold the sample fill_sparse left for the caller's operator
HoldsSample == splife = "alive" /\ cv.fills > 0 /\ sp.known_filled /\ sheap = SampleOf(sp)

\* fill_sparse grouped the samples by column: the minor-axis index array is
\* cols, and slot x of it holds the column x \div vec_nnz
GroupedByColumn ==
    /\ IdxsMinor(sp) = sp.cols
    /\ \A x \in 0..(nnz(sp) - 1) : sheap[sp.cols].data[x] = x \div sp.dist.vec_nnz

\* C30: has_fixed_nnz_per_col(S) is true exactly when fill_sparse grouped the
\* samples of S by column, for wide, tall and square S of either major axis.
C30_FixedNnzPerColMatchesFill ==
    HoldsSample => (has_fixed_nnz_per_col(sp) <=> GroupedByColumn)

\* What does hold: the same for the operators that are not square
FixedNnzPerColOffSquare ==
    (HoldsSample /\ sp.dist.n_rows # sp.dist.n_cols)
        => (has_fixed_nnz_per_col(sp) <=> GroupedByColumn)

\* On a square operator has_fixed_nnz_per_col is false for either major axis
FixedNnzPerColFalseOnSquare ==
    (HoldsSample /\ sp.dist.n_rows = sp.dist.n_cols) => ~has_fixed_nnz_per_col(sp)

\* while fill_sparse groups every square operator of major axis Short by column
SquareShortGroupedByColumn ==
    (HoldsSample /\ sp.dist.n_rows = sp.dist.n_cols /\ sp.dist.major_axis = "Short")
        => GroupedByColumn

====
